---- MODULE Spec2Model ----
(***************************************************************************)
(* The drizzle-kit patcher (scripts/patch-drizzle-kit.ts) as a state       *)
(* machine, with the steps of its test harness and scripts/verify-db.ts.   *)
(*                                                                         *)
(* Text is a sequence of tokens.  A token is a fragment of bin.cjs that    *)
(* the patcher's patterns and literals treat as a unit: a call site that a *)
(* rule's regular expression matches, a fragment that a replacement        *)
(* writes, the shebang, a newline, the marker prefix and single digits.    *)
(* String operations of the source are modelled on token sequences:        *)
(* includes = contiguous sub-sequence, startsWith = first token,           *)
(* indexOf("\n") = first newline token, slice = SubSeq.                    *)
(***************************************************************************)
EXTENDS Naturals, Integers, Sequences, FiniteSets, TLC

VARIABLES
    bin,        \* node_modules/.../bin.cjs: [present, text]
    pc,         \* position of each run of patchDrizzleKit
    content,    \* the run's in-memory buffer (let content)
    results,    \* the run's PatchResult[] (const results)
    idx,        \* number of the next rule block of the run
    exitCode,   \* process exit status of the run, -1 while it runs
    out,        \* console lines the run has printed
    before,     \* history: the artifact as it was when the run started
    writes,     \* history: number of writeTextFile calls of the run
    origin,     \* history: how the initial artifact came to be
    runs,       \* history: number of finished runs, counted up to MaxRuns
    after1,     \* history: the artifact as the first finished run left it
    ap,         \* input and output of a stand-alone applyPatch call
    version,    \* the drizzle-kit version in the path of bin.cjs
    prev,       \* history: the buffer the latest rule block received
    ret,        \* how the run's call of patchDrizzleKit ended for its caller:
                \* kind "pending", "void" (it returned, without a value),
                \* "exit" (Deno.exit ended the process)
    h,          \* the test harness (main of the test script)
    log,        \* history: what the run has done so far, in order: the
                \* states of its life it entered, its file operations and
                \* its rule blocks
    bin0,       \* history: the artifact before the first run
    rc          \* one call of the harness's runCommand: the child process,
                \* the timer, the awaited output

vars == <<bin, pc, content, results, idx, exitCode, out, before, writes,
          origin, runs, after1, ap, version, prev, ret, h, log, bin0,
          rc>>

(***************************************************************************)
(* Bounds                                                                  *)
(***************************************************************************)
\* at most this many of the rules' call sites are missing from the bundle
MaxMissing == 1
\* each call site that is present occurs at most this many times
MaxOcc == 2
\* finished runs are counted up to this number
MaxRuns == 2

(***************************************************************************)
(* Tokens                                                                  *)
(***************************************************************************)
NL == "\n"
SHEBANG == "#!/usr/bin/env node"
MARKER_PREFIX == "// DRIZZLE-KIT-DENO-PATCHED-V"
Digits == {"0", "1", "9"}

\* const PATCH_MARKER = "// DRIZZLE-KIT-DENO-PATCHED-V10"
PATCH_MARKER == <<MARKER_PREFIX, "1", "0">>
\* the marker an earlier release of the patcher wrote
OLD_MARKER == <<MARKER_PREFIX, "9">>

WALK_SIG == "function walkForTsConfig(directory, readdirSync) {"
WALK_RET == "return void 0; // PATCHED: disabled for Deno"
RESOLVE_SIG == "recusivelyResolveSync(options) {"
RESOLVE_RET == "return null; // PATCHED: disabled for Deno"
COLOR_SIG == "function _supportsColor(haveStream, { streamIsTTY, sniffFlags = true } = {}) {"
COLOR2_SIG == "function supportsColor2(stream) {"
COLOR_NOTE == "// PATCHED: Return color level 3 (truecolor) without checking env vars for Deno"
COLOR_RET == "return 3;"
COLOR_REST == "// Original code below (unreachable):"
BUFFERUTIL == "if (!process.env.WS_NO_BUFFER_UTIL) {"
BUFFERUTIL_OFF == "if (false /* PATCHED: skip bufferutil for Deno */ && !process.env.WS_NO_BUFFER_UTIL) {"
ENVOPT_HEAD == "\"../node_modules/.pnpm/dotenv@16.4.5/node_modules/dotenv/lib/env-options.js\"(exports2, module2) {"
ENVOPT_VAR == "var options = {};"
ENVOPT_SITE == "\"../node_modules/.pnpm/dotenv@16.4.5/node_modules/dotenv/lib/env-options.js\"(exports2, module2) { var options = {};"
ENVOPT_NOTE == "// PATCHED: Skip DOTENV_CONFIG_* env checks for Deno"
ENVOPT_EXPORT == "module2.exports = {};"
ENVOPT_RET == "return;"
DOTENV_PATH == "// ../node_modules/.pnpm/dotenv@16.4.5/node_modules/dotenv/config.js"
DOTENV_SITE == "// ../node_modules/.pnpm/dotenv@16.4.5/node_modules/dotenv/config.js (function() { require_main().config("
DOTENV_NOTE == "// PATCHED: Skip dotenv auto-config for Deno"
DOTENV_OFF == "(function() { return; require_main().config("
HOMEDIR == "var homedir = import_node_os2.default.homedir();"
HOMEDIR_OFF == "var homedir = \"\"; // PATCHED: deferred for Deno - will be set on first use"
HOMEDIR_GET == "var _getHomedir = () => { if (!homedir) homedir = import_node_os2.default.homedir(); return homedir; };"
TMPDIR == "var tmpdir = import_node_os2.default.tmpdir();"
TMPDIR_OFF == "var tmpdir = \"\"; // PATCHED: deferred for Deno - will be set on first use"
TMPDIR_GET == "var _getTmpdir = () => { if (!tmpdir) tmpdir = import_node_os2.default.tmpdir(); return tmpdir; };"
HOMEDIR_USE == "import_node_path.default.join(homedir,"
HOMEDIR_LAZY == "import_node_path.default.join(_getHomedir(),"
TMPDIR_USE == "import_node_path.default.join(tmpdir,"
TMPDIR_LAZY == "import_node_path.default.join(_getTmpdir(),"
REGISTER_SIG == "safeRegister = async () => {"
REGISTER_RET == "return { unregister: () => {} }; // PATCHED: esbuild disabled for Deno"
CONFIG_REQUIRE == "const required = require(${path});"
CONFIG_IMPORT == "const required = await import("
SCHEMA_REQUIRE == "const i0 = require(${it});"
SCHEMA_IMPORT == "const i0 = await import("
IMPORT_END == ");"
IMPORT_NOTE == "// PATCHED: import for Deno TS support"
RUN_STMT == "run([generate, migrate, pull, push, studio], {...});"
RUN_CALL == "run([generate, migrate, pull, push, studio], {...})"
RUN_THEN == ".then(() => {"
RUN_EXIT == "setTimeout(() => process.exit(0), 50)"
RUN_NOTE == "; }); // PATCHED: force exit for Deno"

(***************************************************************************)
(* Regular expressions and String.prototype.replace on token sequences     *)
(*                                                                         *)
(* A pattern is a record: toks, the tokens its expression starts a match   *)
(* at; global, its g flag; group, the text its capture group 1 takes from  *)
(* the token; line, whether it is anchored with ^ and $ under the m flag;  *)
(* close, for an anchored pattern, the tokens that can end the match (they *)
(* end in "})" or "});"), each mapped to itself without the ";".           *)
(* A replacement is a template: a sequence of tokens in which "$1" stands  *)
(* for capture group 1.                                                    *)
(***************************************************************************)
Re(toks) ==
    [toks |-> toks, global |-> TRUE, line |-> FALSE,
     group |-> [t \in toks |-> <<>>], close |-> <<>>]

ReGroup(group) ==
    [toks |-> DOMAIN group, global |-> TRUE, line |-> FALSE,
     group |-> group, close |-> <<>>]

ReLine(toks, close) ==
    [toks |-> toks, global |-> FALSE, line |-> TRUE,
     group |-> [t \in toks |-> <<>>], close |-> close]

Min(S) == CHOOSE x \in S : \A y \in S : x <= y

\* ^ under the m flag: the start of the text or the position after a newline
LineStart(text, i) == i = 1 \/ text[i - 1] = NL

RECURSIVE Newlines(_, _)
\* number of consecutive newlines from position i on
Newlines(text, i) ==
    IF i <= Len(text) /\ text[i] = NL THEN 1 + Newlines(text, i + 1) ELSE 0

\* \s*$ under the m flag after position j: the number of newlines the greedy
\* \s* keeps so that $ (end of text, or just before a newline) matches;
\* -1 when $ cannot match
Trailing(text, j) ==
    LET k == Newlines(text, j + 1)
    IN  IF j + k = Len(text) THEN k
        ELSE IF k >= 1 THEN k - 1
        ELSE -1

\* where a match of an anchored pattern that starts at i can end; the lazy
\* [\s\S]*? takes the first
Closers(text, i, pattern) ==
    {j \in i..Len(text) :
        text[j] \in DOMAIN pattern.close /\ Trailing(text, j) >= 0}

\* length of the match of pattern that starts at position i, 0 when none
MatchLen(text, i, pattern) ==
    IF text[i] \notin pattern.toks THEN 0
    ELSE IF ~pattern.line THEN 1
    ELSE IF ~LineStart(text, i) \/ Closers(text, i, pattern) = {} THEN 0
    ELSE LET j == Min(Closers(text, i, pattern))
         IN  (j - i + 1) + Trailing(text, j)

\* capture group 1 of the match that starts at position i
Capture(text, i, pattern) ==
    IF ~pattern.line THEN pattern.group[text[i]]
    ELSE LET j == Min(Closers(text, i, pattern))
         IN  SubSeq(text, i, j - 1) \o <<pattern.close[text[j]]>>

RECURSIVE Expand(_, _)
\* the replacement template with $1 filled in
Expand(template, g) ==
    IF template = <<>> THEN <<>>
    ELSE (IF Head(template) = "$1" THEN g ELSE <<Head(template)>>)
         \o Expand(Tail(template), g)

\* RegExp.prototype.test with lastIndex = 0
Test(pattern, text) == \E i \in 1..Len(text) : MatchLen(text, i, pattern) > 0

RECURSIVE ReplaceFrom(_, _, _, _)
\* the text from position i on with the leftmost match replaced, and the
\* matches after it when the pattern is global
ReplaceFrom(text, i, pattern, template) ==
    LET hits == {j \in i..Len(text) : MatchLen(text, j, pattern) > 0}
    IN  IF hits = {} THEN SubSeq(text, i, Len(text))
        ELSE LET j == Min(hits)
                 n == MatchLen(text, j, pattern)
             IN  SubSeq(text, i, j - 1)
                 \o Expand(template, Capture(text, j, pattern))
                 \o (IF pattern.global
                     THEN ReplaceFrom(text, j + n, pattern, template)
                     ELSE SubSeq(text, j + n, Len(text)))

\* String.prototype.replace(pattern, replacement)
Replace(text, pattern, template) == ReplaceFrom(text, 1, pattern, template)

\* String.prototype.indexOf(lit) + 1: the first position lit occurs at, 0
\* when it does not occur
IndexOf(text, lit) ==
    LET hits == {i \in 1..(Len(text) + 1 - Len(lit)) :
                    SubSeq(text, i, i + Len(lit) - 1) = lit}
    IN  IF hits = {} THEN 0 ELSE Min(hits)

\* the bug of testing startsWith where includes is meant
Includes_startsWith(text, lit) == IndexOf(text, lit) = 1

\* String.prototype.includes(lit)
Includes(text, lit) == IndexOf(text, lit) > 0

\* String.prototype.startsWith("#!")
StartsWithShebang(text) == Len(text) > 0 /\ text[1] = SHEBANG

\* String.prototype.indexOf("\n") + 1: the position of the first newline,
\* 0 when there is none
FirstNewline(text) == IndexOf(text, <<NL>>)

(***************************************************************************)
(* applyPatch                                                              *)
(***************************************************************************)
\* the bug of leaving out the newContent === content test
applyPatch_unchecked(text, name, searchPattern, replacement) ==
    IF ~Test(searchPattern, text)
    THEN [content |-> text,
          result |-> [name |-> name, success |-> FALSE,
                      error |-> "Pattern not found"]]
    ELSE [content |-> Replace(text, searchPattern, replacement),
          result |-> [name |-> name, success |-> TRUE]]

\* the bug of a second test on the replaced text: a rule whose replacement
\* removes every match is recorded as failed although its text is kept
applyPatch_testAfter(text, name, searchPattern, replacement) ==
    IF ~Test(searchPattern, text)
    THEN [content |-> text,
          result |-> [name |-> name, success |-> FALSE,
                      error |-> "Pattern not found"]]
    ELSE LET newContent == Replace(text, searchPattern, replacement)
         IN  IF newContent = text
             THEN [content |-> text,
                   result |-> [name |-> name, success |-> FALSE,
                               error |-> "Replacement had no effect"]]
             ELSE [content |-> newContent,
                   result |-> [name |-> name,
                               success |-> Test(searchPattern, newContent)]
                              @@ [error |-> "Pattern not found"]]

applyPatch(text, name, searchPattern, replacement) ==
    IF ~Test(searchPattern, text)
    THEN [content |-> text,
          result |-> [name |-> name, success |-> FALSE,
                      error |-> "Pattern not found"]]
    ELSE LET newContent == Replace(text, searchPattern, replacement)
         IN  IF newContent = text
             THEN [content |-> text,
                   result |-> [name |-> name, success |-> FALSE,
                               error |-> "Replacement had no effect"]]
             ELSE [content |-> newContent,
                   result |-> [name |-> name, success |-> TRUE]]

(***************************************************************************)
(* The rule list of patchDrizzleKit, in the order of its blocks            *)
(***************************************************************************)
RULES == <<
    [name |-> "walkForTsConfig",
     pattern |-> Re({WALK_SIG}),
     replacement |-> <<WALK_SIG, NL, WALK_RET>>],
    [name |-> "recusivelyResolveSync",
     pattern |-> Re({RESOLVE_SIG}),
     replacement |-> <<RESOLVE_SIG, NL, RESOLVE_RET>>],
    [name |-> "stub _supportsColor (chalk)",
     pattern |-> Re({COLOR_SIG}),
     replacement |-> <<COLOR_SIG, NL, COLOR_NOTE, NL, COLOR_RET, NL, COLOR_REST>>],
    [name |-> "stub supportsColor2 (colors)",
     pattern |-> Re({COLOR2_SIG}),
     replacement |-> <<COLOR2_SIG, NL, COLOR_NOTE, NL, COLOR_RET, NL, COLOR_REST>>],
    [name |-> "skip bufferutil (ws)",
     pattern |-> Re({BUFFERUTIL}),
     replacement |-> <<BUFFERUTIL_OFF>>],
    [name |-> "stub dotenv env-options",
     pattern |-> Re({ENVOPT_SITE}),
     replacement |-> <<ENVOPT_HEAD, NL, ENVOPT_NOTE, NL, ENVOPT_EXPORT, NL,
                       ENVOPT_RET, NL, ENVOPT_VAR>>],
    [name |-> "stub dotenv config auto-call",
     pattern |-> Re({DOTENV_SITE}),
     replacement |-> <<DOTENV_PATH, NL, DOTENV_NOTE, NL, DOTENV_OFF>>],
    [name |-> "defer homedir (env-paths)",
     pattern |-> Re({HOMEDIR}),
     replacement |-> <<HOMEDIR_OFF, NL, HOMEDIR_GET>>],
    [name |-> "defer tmpdir (env-paths)",
     pattern |-> Re({TMPDIR}),
     replacement |-> <<TMPDIR_OFF, NL, TMPDIR_GET>>],
    [name |-> "lazy homedir usage",
     pattern |-> Re({HOMEDIR_USE}),
     replacement |-> <<HOMEDIR_LAZY>>],
    [name |-> "lazy tmpdir usage",
     pattern |-> Re({TMPDIR_USE}),
     replacement |-> <<TMPDIR_LAZY>>],
    [name |-> "safeRegister (disable esbuild)",
     pattern |-> Re({REGISTER_SIG}),
     replacement |-> <<REGISTER_SIG, NL, REGISTER_RET>>],
    [name |-> "config loading (require -> import)",
     pattern |-> ReGroup(CONFIG_REQUIRE :> <<"path">>),
     replacement |-> <<CONFIG_IMPORT, "$1", IMPORT_END, IMPORT_NOTE>>],
    [name |-> "schema loading (require -> import)",
     pattern |-> ReGroup(SCHEMA_REQUIRE :> <<"it">>),
     replacement |-> <<SCHEMA_IMPORT, "$1", IMPORT_END, IMPORT_NOTE>>],
    [name |-> "CLI exit handler",
     pattern |-> ReLine({RUN_STMT, RUN_CALL},
                        (RUN_STMT :> RUN_CALL) @@ (RUN_CALL :> RUN_CALL)),
     replacement |-> <<"$1", RUN_THEN, RUN_EXIT, RUN_NOTE>>] >>

NumRules == Len(RULES)

RuleNames == [i \in 1..NumRules |-> RULES[i].name]

\* the bug of a critical list that leaves out schema loading
criticalPatches_two ==
    {"safeRegister (disable esbuild)",
     "config loading (require -> import)"}

\* const criticalPatches = [...]
criticalPatches ==
    {"safeRegister (disable esbuild)",
     "config loading (require -> import)",
     "schema loading (require -> import)"}

\* the bug of a filter that keeps the failures of the other rules
criticalFailures_optional(res) ==
    SelectSeq(res, LAMBDA r : ~r.success /\ r.name \notin criticalPatches)

\* the bug of a filter that matches no result
criticalFailures_none(res) ==
    SelectSeq(res, LAMBDA r : ~r.success /\ r.name \in {})

\* results.filter((r) => !r.success && criticalPatches.includes(r.name))
criticalFailures(res) ==
    SelectSeq(res, LAMBDA r : ~r.success /\ r.name \in criticalPatches)

\* the bug of losing the marker on the shebang branch
InsertMarker_shebangOnly(text, marker) ==
    IF StartsWithShebang(text)
    THEN LET firstNewline == FirstNewline(text)
         IN  SubSeq(text, 1, firstNewline)
             \o SubSeq(text, firstNewline + 1, Len(text))
    ELSE marker \o <<NL>> \o text

\* the "Insert patch marker after shebang" block
InsertMarker(text, marker) ==
    IF StartsWithShebang(text)
    THEN LET firstNewline == FirstNewline(text)
         IN  SubSeq(text, 1, firstNewline) \o marker \o <<NL>>
             \o SubSeq(text, firstNewline + 1, Len(text))
    ELSE marker \o <<NL>> \o text

RECURSIVE DigitRun(_, _)
\* (\d+) from position i on
DigitRun(text, i) ==
    IF i <= Len(text) /\ text[i] \in Digits
    THEN <<text[i]>> \o DigitRun(text, i + 1)
    ELSE <<>>

\* content.match(/\/\/ DRIZZLE-KIT-DENO-PATCHED-V(\d+)/): capture group 1 of
\* the first match, <<>> when there is no match
oldPatchMatch(text) ==
    LET hits == {i \in 1..Len(text) :
                    text[i] = MARKER_PREFIX /\ DigitRun(text, i + 1) # <<>>}
    IN  IF hits = {} THEN <<>> ELSE DigitRun(text, Min(hits) + 1)

RECURSIVE RunRules(_, _, _)
\* the rule blocks from block i on, as one fold over the buffer
RunRules(text, res, i) ==
    IF i > NumRules THEN [content |-> text, results |-> res]
    ELSE LET r == applyPatch(text, RULES[i].name, RULES[i].pattern,
                             RULES[i].replacement)
         IN  RunRules(r.content, Append(res, r.result), i + 1)

(***************************************************************************)
(* The artifacts a run can find                                            *)
(***************************************************************************)
\* the call site each rule looks for, in the order of the rule list
Sites == <<WALK_SIG, RESOLVE_SIG, COLOR_SIG, COLOR2_SIG, BUFFERUTIL,
           ENVOPT_SITE, DOTENV_SITE, HOMEDIR, TMPDIR, HOMEDIR_USE, TMPDIR_USE,
           REGISTER_SIG, CONFIG_REQUIRE, SCHEMA_REQUIRE, RUN_STMT>>

\* a bundle is written one statement per line, or minified on one line
Layouts == {<<NL>>, <<>>}

\* marker lines an artifact may carry before any run of this patcher
MarkerLines ==
    {<<>>, PATCH_MARKER, OLD_MARKER,
     <<MARKER_PREFIX, "1", "1">>, <<MARKER_PREFIX, "1", "0", "0">>}

\* the call sites a bundle may lack, one of each kind of rule: walkForTsConfig
\* (critical for the harness only), skip bufferutil (optional for both), the
\* three rules critical for the patcher, and the line-anchored CLI exit
\* handler
Droppable == {1, 5, 12, 13, 14, 15}

MissingSets ==
    {m \in SUBSET Droppable : Cardinality(m) <= MaxMissing}

RECURSIVE Copies(_, _)
Copies(text, n) == IF n = 0 THEN <<>> ELSE text \o Copies(text, n - 1)

RECURSIVE Bundle(_, _, _, _)
\* the call sites from site i on, without the missing ones, each occ times
Bundle(missing, occ, sep, i) ==
    IF i > Len(Sites) THEN <<>>
    ELSE (IF i \in missing THEN <<>> ELSE Copies(<<Sites[i]>> \o sep, occ))
         \o Bundle(missing, occ, sep, i + 1)

\* an artifact no patcher has rewritten
Raw(shebang, sep, marker, missing, occ) ==
    (IF shebang THEN <<SHEBANG>> \o sep ELSE <<>>)
    \o (IF marker = <<>> THEN <<>> ELSE marker \o <<NL>>)
    \o Bundle(missing, occ, sep, 1)

\* what a committed run of the same rule list with the marker of an
\* earlier release makes of the text
OlderRelease(text) ==
    RunRules(InsertMarker(text, OLD_MARKER), <<>>, 1)

\* export const SUPPORTED_VERSIONS = ["0.30.6", "0.31.8"]
SUPPORTED_VERSIONS == <<"0.30.6", "0.31.8">>

\* SUPPORTED_VERSIONS.includes(version)
Supported(v) == \E i \in 1..Len(SUPPORTED_VERSIONS) : SUPPORTED_VERSIONS[i] = v

\* the value of version: the capture of drizzle-kit@(\d+\.\d+\.\d+) in the
\* path of bin.cjs, "unknown" when the path has none
Versions == {"0.30.6", "0.31.9", "unknown"}

\* the "Version check" block: the lines it prints
versionWarning(v) ==
    IF ~Supported(v) /\ v # "unknown"
    THEN << <<"drizzle-kit@", v, " may not be compatible (tested: ",
              "0.30.6, 0.31.8", ")">>,
            <<"Attempting to patch anyway...">> >>
    ELSE <<>>

\* no run of the harness
NoHarness == [at |-> "off"]

\* no call of runCommand
NoCommand == [pos |-> "off"]

Procs == {1, 2}

Terminal == {"done", "aborted", "not-found"}

Init ==
    /\ \/ /\ bin = [present |-> FALSE, text |-> <<>>]
          /\ origin = "absent"
       \/ \E shebang \in BOOLEAN, sep \in Layouts, marker \in MarkerLines,
             missing \in MissingSets, occ \in 1..MaxOcc :
             /\ bin = [present |-> TRUE,
                       text |-> Raw(shebang, sep, marker, missing, occ)]
             /\ origin = "raw"
       \/ \E shebang \in BOOLEAN, sep \in Layouts,
             missing \in MissingSets, occ \in 1..MaxOcc :
             LET old == OlderRelease(Raw(shebang, sep, <<>>, missing, occ))
             IN  /\ criticalFailures(old.results) = <<>>
                 /\ bin = [present |-> TRUE, text |-> old.content]
                 /\ origin = "older-release"
    /\ pc = [p \in Procs |-> "idle"]
    /\ content = [p \in Procs |-> <<>>]
    /\ results = [p \in Procs |-> <<>>]
    /\ idx = [p \in Procs |-> 0]
    /\ exitCode = [p \in Procs |-> -1]
    /\ out = [p \in Procs |-> <<>>]
    /\ before = [p \in Procs |-> bin]
    /\ writes = [p \in Procs |-> 0]
    /\ runs = 0
    /\ after1 = bin
    /\ ap = <<>>
    /\ version \in Versions
    /\ prev = [p \in Procs |-> <<>>]
    /\ ret = [p \in Procs |-> [kind |-> "pending"]]
    /\ h = NoHarness
    /\ log = [p \in Procs |-> <<>>]
    /\ bin0 = bin
    /\ rc = NoCommand

\* history: a run ends; remember the artifact the first finished run leaves
Finished ==
    /\ runs' = IF runs < MaxRuns THEN runs + 1 ELSE runs
    /\ after1' = IF runs = 0 THEN bin ELSE after1

\* history: the run enters the states, and does the operations, events
Log(p, events) == log' = [log EXCEPT ![p] = @ \o events]

\* a run of patchDrizzleKit is started (import.meta.main, or a caller)
StartRun(p) ==
    /\ pc[p] \in Terminal \cup {"idle"}
    /\ pc' = [pc EXCEPT ![p] = "start"]
    /\ content' = [content EXCEPT ![p] = <<>>]
    /\ results' = [results EXCEPT ![p] = <<>>]
    /\ idx' = [idx EXCEPT ![p] = 0]
    /\ exitCode' = [exitCode EXCEPT ![p] = -1]
    /\ out' = [out EXCEPT ![p] = <<>>]
    /\ before' = [before EXCEPT ![p] = bin]
    /\ writes' = [writes EXCEPT ![p] = 0]
    /\ prev' = [prev EXCEPT ![p] = <<>>]
    /\ ret' = [ret EXCEPT ![p] = [kind |-> "pending"]]
    /\ log' = [log EXCEPT ![p] = <<"start">>]
    /\ UNCHANGED <<bin, origin, runs, after1, ap, version, h, bin0, rc>>

\* the bug of returning where Deno.exit(1) is meant
Locate_return(p) ==
    /\ pc[p] = "start"
    /\ IF ~bin.present
       THEN /\ out' = [out EXCEPT ![p] = @ \o
                         << <<"Could not find drizzle-kit bin.cjs">>,
                            <<"Make sure you've run deno install first">> >>]
            /\ exitCode' = [exitCode EXCEPT ![p] = 0]
            /\ ret' = [ret EXCEPT ![p] = [kind |-> "void"]]
            /\ pc' = [pc EXCEPT ![p] = "not-found"]
            /\ Log(p, <<"not-found">>)
            /\ Finished
       ELSE /\ out' = [out EXCEPT ![p] =
                         Append(@, <<"Found drizzle-kit@", version, " at: bin.cjs">>)
                         \o versionWarning(version)]
            /\ pc' = [pc EXCEPT ![p] = "located"]
            /\ Log(p, <<"located">>)
            /\ UNCHANGED <<exitCode, runs, after1, ret>>
    /\ UNCHANGED <<bin, content, results, idx, before, writes, origin, ap,
                   version, prev, h, bin0, rc>>

\* the bug of a fatal version gate: a version that is not in the list ends
\* the run with exit status 1
Locate_fatalGate(p) ==
    /\ pc[p] = "start"
    /\ IF ~bin.present
       THEN /\ out' = [out EXCEPT ![p] = @ \o
                         << <<"Could not find drizzle-kit bin.cjs">>,
                            <<"Make sure you've run deno install first">> >>]
            /\ exitCode' = [exitCode EXCEPT ![p] = 1]
            /\ ret' = [ret EXCEPT ![p] = [kind |-> "exit"]]
            /\ pc' = [pc EXCEPT ![p] = "not-found"]
            /\ Log(p, <<"not-found">>)
            /\ Finished
       ELSE IF versionWarning(version) # <<>>
       THEN /\ out' = [out EXCEPT ![p] =
                         Append(@, <<"Found drizzle-kit@", version, " at: bin.cjs">>)
                         \o versionWarning(version)]
            /\ exitCode' = [exitCode EXCEPT ![p] = 1]
            /\ ret' = [ret EXCEPT ![p] = [kind |-> "exit"]]
            /\ pc' = [pc EXCEPT ![p] = "aborted"]
            /\ Log(p, <<"located", "aborted">>)
            /\ Finished
       ELSE /\ out' = [out EXCEPT ![p] =
                         Append(@, <<"Found drizzle-kit@", version, " at: bin.cjs">>)]
            /\ pc' = [pc EXCEPT ![p] = "located"]
            /\ Log(p, <<"located">>)
            /\ UNCHANGED <<exitCode, runs, after1, ret>>
    /\ UNCHANGED <<bin, content, results, idx, before, writes, origin, ap,
                   version, prev, h, bin0, rc>>

\* const result = await findDrizzleKitBin(); if (!result) { ... Deno.exit(1) };
\* the "Found drizzle-kit@" line and the "Version check" block
Locate(p) ==
    /\ pc[p] = "start"
    /\ IF ~bin.present
       THEN /\ out' = [out EXCEPT ![p] = @ \o
                         << <<"Could not find drizzle-kit bin.cjs">>,
                            <<"Make sure you've run deno install first">> >>]
            /\ exitCode' = [exitCode EXCEPT ![p] = 1]
            /\ ret' = [ret EXCEPT ![p] = [kind |-> "exit"]]
            /\ pc' = [pc EXCEPT ![p] = "not-found"]
            /\ Log(p, <<"not-found">>)
            /\ Finished
       ELSE /\ out' = [out EXCEPT ![p] =
                         Append(@, <<"Found drizzle-kit@", version, " at: bin.cjs">>)
                         \o versionWarning(version)]
            /\ pc' = [pc EXCEPT ![p] = "located"]
            /\ Log(p, <<"located">>)
            /\ UNCHANGED <<exitCode, runs, after1, ret>>
    /\ UNCHANGED <<bin, content, results, idx, before, writes, origin, ap,
                   version, prev, h, bin0, rc>>

\* let content = await Deno.readTextFile(binPath); const results = [];
ReadFile(p) ==
    /\ pc[p] = "located"
    /\ content' = [content EXCEPT ![p] = bin.text]
    /\ results' = [results EXCEPT ![p] = <<>>]
    /\ pc' = [pc EXCEPT ![p] = "read"]
    /\ Log(p, <<"read">>)
    /\ UNCHANGED <<bin, idx, exitCode, out, before, writes, origin, runs,
                   after1, ap, version, prev, ret, h, bin0, rc>>

\* the bug of an already-patched branch that does not return: it skips the
\* rules but still inserts the marker and writes the buffer
MarkerCheck_fallthrough(p) ==
    /\ pc[p] = "read"
    /\ IF Includes(content[p], PATCH_MARKER)
       THEN /\ out' = [out EXCEPT ![p] =
                         Append(@, <<"drizzle-kit already patched (v10)">>)]
            /\ content' = [content EXCEPT ![p] = InsertMarker(@, PATCH_MARKER)]
            /\ pc' = [pc EXCEPT ![p] = "write"]
            /\ Log(p, <<"already-patched">>)
            /\ UNCHANGED idx
       ELSE /\ out' = [out EXCEPT ![p] =
                         IF oldPatchMatch(content[p]) # <<>>
                         THEN Append(@, <<"Found older patch (v">>
                                        \o oldPatchMatch(content[p])
                                        \o <<"), will re-patch to v10">>)
                         ELSE @]
            /\ content' = [content EXCEPT ![p] = InsertMarker(@, PATCH_MARKER)]
            /\ idx' = [idx EXCEPT ![p] = 1]
            /\ pc' = [pc EXCEPT ![p] = "rule"]
            /\ UNCHANGED log
    /\ UNCHANGED <<bin, results, exitCode, before, writes, origin, runs,
                   after1, ap, version, prev, ret, h, bin0, rc>>

\* the marker check, the older-patch note and the marker insertion
MarkerCheck(p) ==
    /\ pc[p] = "read"
    /\ IF Includes(content[p], PATCH_MARKER)
       THEN /\ out' = [out EXCEPT ![p] =
                         Append(@, <<"drizzle-kit already patched (v10)">>)]
            /\ exitCode' = [exitCode EXCEPT ![p] = 0]
            /\ ret' = [ret EXCEPT ![p] = [kind |-> "void"]]
            /\ pc' = [pc EXCEPT ![p] = "done"]
            /\ Log(p, <<"already-patched", "done">>)
            /\ Finished
            /\ UNCHANGED <<content, idx>>
       ELSE /\ out' = [out EXCEPT ![p] =
                         IF oldPatchMatch(content[p]) # <<>>
                         THEN Append(@, <<"Found older patch (v">>
                                        \o oldPatchMatch(content[p])
                                        \o <<"), will re-patch to v10">>)
                         ELSE @]
            /\ content' = [content EXCEPT ![p] = InsertMarker(@, PATCH_MARKER)]
            /\ idx' = [idx EXCEPT ![p] = 1]
            /\ pc' = [pc EXCEPT ![p] = "rule"]
            /\ UNCHANGED <<exitCode, runs, after1, ret, log>>
    /\ UNCHANGED <<bin, results, before, writes, origin, ap, version, prev, h,
                   bin0, rc>>

\* the bug of a fail-fast pipeline: a failed rule ends the rule list
ApplyRule_failFast(p) ==
    /\ pc[p] = "rule"
    /\ LET rule == RULES[idx[p]]
           r == applyPatch(content[p], rule.name, rule.pattern, rule.replacement)
       IN  /\ content' = [content EXCEPT ![p] = r.content]
           /\ results' = [results EXCEPT ![p] = Append(@, r.result)]
           /\ pc' = [pc EXCEPT ![p] =
                       IF idx[p] = NumRules \/ ~r.result.success
                       THEN "report" ELSE "rule"]
           /\ Log(p, IF idx[p] = NumRules \/ ~r.result.success
                     THEN <<"rule", "rules-applied">> ELSE <<"rule">>)
    /\ idx' = [idx EXCEPT ![p] = @ + 1]
    /\ prev' = [prev EXCEPT ![p] = content[p]]
    /\ UNCHANGED <<bin, exitCode, out, before, writes, origin, runs, after1,
                   ap, version, ret, h, bin0, rc>>

\* the bug of saving the buffer after every applied rule
ApplyRule_writeThrough(p) ==
    /\ pc[p] = "rule"
    /\ LET rule == RULES[idx[p]]
           r == applyPatch(content[p], rule.name, rule.pattern, rule.replacement)
       IN  /\ content' = [content EXCEPT ![p] = r.content]
           /\ results' = [results EXCEPT ![p] = Append(@, r.result)]
           /\ bin' = IF r.result.success
                     THEN [present |-> TRUE, text |-> r.content] ELSE bin
           /\ Log(p, (IF r.result.success THEN <<"rule", "write">>
                      ELSE <<"rule">>)
                     \o (IF idx[p] = NumRules THEN <<"rules-applied">>
                         ELSE <<>>))
    /\ idx' = [idx EXCEPT ![p] = @ + 1]
    /\ pc' = [pc EXCEPT ![p] = IF idx[p] = NumRules THEN "report" ELSE "rule"]
    /\ prev' = [prev EXCEPT ![p] = content[p]]
    /\ UNCHANGED <<exitCode, out, before, writes, origin, runs, after1,
                   ap, version, ret, h, bin0, rc>>

\* one "Patch N" block: applyPatch, content = newContent, results.push(result)
ApplyRule(p) ==
    /\ pc[p] = "rule"
    /\ LET rule == RULES[idx[p]]
           r == applyPatch(content[p], rule.name, rule.pattern, rule.replacement)
       IN  /\ content' = [content EXCEPT ![p] = r.content]
           /\ results' = [results EXCEPT ![p] = Append(@, r.result)]
    /\ idx' = [idx EXCEPT ![p] = @ + 1]
    /\ pc' = [pc EXCEPT ![p] = IF idx[p] = NumRules THEN "report" ELSE "rule"]
    /\ Log(p, IF idx[p] = NumRules THEN <<"rule", "rules-applied">>
              ELSE <<"rule">>)
    /\ prev' = [prev EXCEPT ![p] = content[p]]
    /\ UNCHANGED <<bin, exitCode, out, before, writes, origin, runs, after1,
                   ap, version, ret, h, bin0, rc>>

\* one line of the report per result
ReportLine(r) ==
    IF r.success THEN <<"  ok ", r.name>> ELSE <<"  failed ", r.name, ": ", r.error>>

\* let hasFailure = false; for (const result of results) ...
hasFailure(res) == \E i \in 1..Len(res) : ~res[i].success

\* the bug of a report that lists the failed results only
Report_failuresOnly(p) ==
    /\ pc[p] = "report"
    /\ out' = [out EXCEPT ![p] = @ \o << <<"Patch results:">> >>
                  \o LET failed == SelectSeq(results[p], LAMBDA r : ~r.success)
                     IN  [i \in 1..Len(failed) |-> ReportLine(failed[i])]]
    /\ pc' = [pc EXCEPT ![p] = "gate"]
    /\ Log(p, <<"report">>)
    /\ UNCHANGED <<bin, content, results, idx, exitCode, before, writes,
                   origin, runs, after1, ap, version, prev, ret, h, bin0, rc>>

\* the "Print results" block
Report(p) ==
    /\ pc[p] = "report"
    /\ out' = [out EXCEPT ![p] = @ \o << <<"Patch results:">> >>
                  \o [i \in 1..Len(results[p]) |-> ReportLine(results[p][i])]]
    /\ pc' = [pc EXCEPT ![p] = "gate"]
    /\ Log(p, <<"report">>)
    /\ UNCHANGED <<bin, content, results, idx, exitCode, before, writes,
                   origin, runs, after1, ap, version, prev, ret, h, bin0, rc>>

\* the bug of a commit gate without Deno.exit(1): after the message the
\* run goes on to the write
CommitGate_noExit(p) ==
    /\ pc[p] = "gate"
    /\ IF Len(criticalFailures(results[p])) > 0
       THEN /\ out' = [out EXCEPT ![p] = Append(@,
                         <<"Critical patches failed - drizzle-kit may not work correctly">>)]
            /\ pc' = [pc EXCEPT ![p] = "write"]
            /\ Log(p, <<"critical-failed">>)
       ELSE /\ pc' = [pc EXCEPT ![p] = "write"]
            /\ Log(p, <<"critical-ok">>)
            /\ UNCHANGED out
    /\ UNCHANGED <<bin, content, results, idx, before, writes, origin, ap,
                   version, prev, h, bin0, rc, exitCode, runs, after1, ret>>

\* if (criticalFailures.length > 0) { ... Deno.exit(1) }
CommitGate(p) ==
    /\ pc[p] = "gate"
    /\ IF Len(criticalFailures(results[p])) > 0
       THEN /\ out' = [out EXCEPT ![p] = Append(@,
                         <<"Critical patches failed - drizzle-kit may not work correctly">>)]
            /\ exitCode' = [exitCode EXCEPT ![p] = 1]
            /\ ret' = [ret EXCEPT ![p] = [kind |-> "exit"]]
            /\ pc' = [pc EXCEPT ![p] = "aborted"]
            /\ Log(p, <<"critical-failed", "aborted">>)
            /\ Finished
       ELSE /\ pc' = [pc EXCEPT ![p] = "write"]
            /\ Log(p, <<"critical-ok">>)
            /\ UNCHANGED <<exitCode, out, runs, after1, ret>>
    /\ UNCHANGED <<bin, content, results, idx, before, writes, origin, ap,
                   version, prev, h, bin0, rc>>

\* the bug of a write that does not replace what another run has written
\* since this run read the file: the file then holds both texts
WriteFile_torn(p) ==
    /\ pc[p] = "write"
    /\ bin' = [present |-> TRUE,
               text |-> IF bin = before[p] THEN content[p]
                        ELSE bin.text \o content[p]]
    /\ writes' = [writes EXCEPT ![p] = @ + 1]
    /\ pc' = [pc EXCEPT ![p] = "committed"]
    /\ Log(p, <<"write", "committed">>)
    /\ UNCHANGED <<content, results, idx, exitCode, out, before, origin,
                   runs, after1, ap, version, prev, ret, h, bin0, rc>>

\* await Deno.writeTextFile(binPath, content)
WriteFile(p) ==
    /\ pc[p] = "write"
    /\ bin' = [present |-> TRUE, text |-> content[p]]
    /\ writes' = [writes EXCEPT ![p] = @ + 1]
    /\ pc' = [pc EXCEPT ![p] = "committed"]
    /\ Log(p, <<"write", "committed">>)
    /\ UNCHANGED <<content, results, idx, exitCode, out, before, origin,
                   runs, after1, ap, version, prev, ret, h, bin0, rc>>

\* the bug of a verdict without its else: the note on the failed rules is
\* followed by the line of a full success
Verdict_noElse(p) ==
    /\ pc[p] = "committed"
    /\ out' = [out EXCEPT ![p] =
                  (IF hasFailure(results[p])
                   THEN Append(@, <<"Some non-critical patches failed, but drizzle-kit should work">>)
                   ELSE @)
                  \o << <<"Patched drizzle-kit successfully">> >>]
    /\ exitCode' = [exitCode EXCEPT ![p] = 0]
    /\ ret' = [ret EXCEPT ![p] = [kind |-> "void"]]
    /\ pc' = [pc EXCEPT ![p] = "done"]
    /\ Log(p, <<"done">>)
    /\ Finished
    /\ UNCHANGED <<bin, content, results, idx, before, writes, origin, ap,
                   version, prev, h, bin0, rc>>

\* the verdict after the write; the function returns
Verdict(p) ==
    /\ pc[p] = "committed"
    /\ out' = [out EXCEPT ![p] = Append(@,
                  IF hasFailure(results[p])
                  THEN <<"Some non-critical patches failed, but drizzle-kit should work">>
                  ELSE <<"Patched drizzle-kit successfully">>)]
    /\ exitCode' = [exitCode EXCEPT ![p] = 0]
    /\ ret' = [ret EXCEPT ![p] = [kind |-> "void"]]
    /\ pc' = [pc EXCEPT ![p] = "done"]
    /\ Log(p, <<"done">>)
    /\ Finished
    /\ UNCHANGED <<bin, content, results, idx, before, writes, origin, ap,
                   version, prev, h, bin0, rc>>

Step(p) ==
    \/ StartRun(p)
    \/ Locate(p)
    \/ ReadFile(p)
    \/ MarkerCheck(p)
    \/ ApplyRule(p)
    \/ Report(p)
    \/ CommitGate(p)
    \/ WriteFile(p)
    \/ Verdict(p)

\* runs on one artifact, one after the other
Next == Step(1)

Spec == Init /\ [][Next]_vars

\* the artifact holds each call site at most once and, when no patcher
\* has rewritten it, lacks at most one of them
OneOfEach ==
    /\ \A i \in 1..Len(Sites) :
          Cardinality({j \in 1..Len(bin.text) : bin.text[j] = Sites[i]}) <= 1
    /\ Cardinality({i \in Droppable :
                       bin.present /\ origin = "raw"
                       /\ \A j \in 1..Len(bin.text) : bin.text[j] # Sites[i]}) <= 1

\* the artifacts the runs are followed on to their end: one version, each
\* call site at most once, at most one of them missing
InitLive ==
    /\ Init
    /\ version = "0.31.9"
    /\ OneOfEach

\* two runs are started on one artifact that carries no marker; it holds
\* each call site at most once and lacks at most one of them
InitConcurrent ==
    /\ Init
    /\ version = "0.30.6"
    /\ bin.present
    /\ origin = "raw"
    /\ oldPatchMatch(bin.text) = <<>>
    /\ OneOfEach

\* a step of one of the two runs; each run is one call of patchDrizzleKit,
\* and a file read and a file write are one step each
NextConcurrent == \E p \in Procs : pc[p] \notin Terminal /\ Step(p)

SpecConcurrent == InitConcurrent /\ [][NextConcurrent]_vars

\* a started run is not suspended for ever: each of its steps is a statement
\* of one sequential function or an awaited file operation
SpecLive == InitLive /\ [][Next]_vars /\ WF_vars(Next)

(***************************************************************************)
(* The harness step verifyAllPatches                                       *)
(***************************************************************************)
\* const CRITICAL_PATCH_MARKERS = [...]
CRITICAL_PATCH_MARKERS == <<
    [name |-> "walkForTsConfig", pattern |-> <<WALK_RET>>],
    [name |-> "safeRegister", pattern |-> <<REGISTER_RET>>],
    [name |-> "config loading", pattern |-> <<IMPORT_NOTE>>],
    [name |-> "CLI exit handler", pattern |-> <<RUN_EXIT>>] >>

\* the names pushed to missingCritical
missingCritical(text) ==
    SelectSeq([i \in 1..Len(CRITICAL_PATCH_MARKERS) |->
                  CRITICAL_PATCH_MARKERS[i].name],
              LAMBDA n : \E i \in 1..Len(CRITICAL_PATCH_MARKERS) :
                            /\ CRITICAL_PATCH_MARKERS[i].name = n
                            /\ ~Includes(text, CRITICAL_PATCH_MARKERS[i].pattern))

\* the StepResult of verifyAllPatches for the artifact b; the optional
\* markers only add to its output text
verifyAllPatches(b) ==
    IF ~b.present
    THEN [name |-> "Verify all patches applied", success |-> FALSE,
          error |-> <<"Could not find drizzle-kit bin.cjs">>]
    ELSE IF Len(missingCritical(b.text)) > 0
    THEN [name |-> "Verify all patches applied", success |-> FALSE,
          error |-> <<"Missing critical patches: ">> \o missingCritical(b.text)]
    ELSE [name |-> "Verify all patches applied", success |-> TRUE]

\* const SUPPORTED_VERSIONS = ["0.30.6", "0.31.8", "0.31.9"] of the harness
TEST_SUPPORTED_VERSIONS == <<"0.30.6", "0.31.8", "0.31.9">>

\* the literal "DRIZZLE-KIT-DENO-PATCHED-V11" of verifyPatchMarker; the
\* marker prefix is the only token that holds its first part
TEST_PATCH_MARKER == <<MARKER_PREFIX, "1", "1">>

\* the StepResult of verifyPatchMarker for the artifact b
verifyPatchMarker(b) ==
    IF ~b.present
    THEN [name |-> "Verify patch marker", success |-> FALSE,
          error |-> "Could not find drizzle-kit bin.cjs"]
    ELSE IF Includes(b.text, TEST_PATCH_MARKER)
    THEN [name |-> "Verify patch marker", success |-> TRUE]
    ELSE [name |-> "Verify patch marker", success |-> FALSE,
          error |-> "Patch marker not found in bin.cjs"]

\* the console strings of the patcher that hold the literal lit
Holding(lit) ==
    CASE lit = "Patched drizzle-kit successfully" ->
            {"Patched drizzle-kit successfully"}
      [] lit = "already patched" ->
            {"drizzle-kit already patched (v10)"}

\* output.includes(lit), output being the lines of stdout and stderr
OutputIncludes(output, lit) ==
    \E i \in 1..Len(output) :
        \E j \in 1..Len(output[i]) : output[i][j] \in Holding(lit)

\* the StepResult of runPatchScript for a patcher process that ended with
\* exit status code and printed output
runPatchScript(code, output) ==
    LET success ==
            /\ code = 0
            /\ \/ OutputIncludes(output, "Patched drizzle-kit successfully")
               \/ OutputIncludes(output, "already patched")
    IN  IF success
        THEN [name |-> "Apply patch", success |-> TRUE]
        ELSE [name |-> "Apply patch", success |-> FALSE,
              error |-> "Patch did not complete successfully"]

(***************************************************************************)
(* scripts/verify-db.ts                                                    *)
(*                                                                         *)
(* A database is a record: tables, the BASE TABLEs it has; columns, the    *)
(* columns of public.users; applied, the rows of __drizzle_migrations.     *)
(***************************************************************************)
USERS == "public.users"
JOURNAL == "__drizzle_migrations"

\* getArgValue(flag, args): the argument after the first flag, "undefined"
\* when the flag is not given or is the last argument
getArgValue(flag, args) ==
    LET hits == {i \in 1..Len(args) : args[i] = flag}
    IN  IF hits = {} \/ Min(hits) = Len(args) THEN "undefined"
        ELSE args[Min(hits) + 1]

\* what the process verify-db.ts does with the arguments args on the
\* database db: its exit status and what it prints
verifyDb(args, db) ==
    LET table == IF getArgValue("--table", args) = "undefined" THEN USERS
                 ELSE getArgValue("--table", args)
        expectedColumns == {"id", "name"}
    IN  IF \E i \in 1..Len(args) : args[i] \in {"--help", "-h"}
        THEN [code |-> 2, stdout |-> <<>>, stderr |-> <<"Usage">>]
        ELSE IF table \notin db.tables
        THEN [code |-> 1, stdout |-> <<>>, stderr |-> <<"Expected table">>]
        ELSE IF ~(expectedColumns \subseteq db.columns)
        THEN [code |-> 1, stdout |-> <<>>, stderr |-> <<"Expected column">>]
        ELSE IF JOURNAL \notin db.tables
        THEN [code |-> 1, stdout |-> <<"Verified DB schema">>,
              stderr |-> <<"Expected __drizzle_migrations table to exist after migrate">>]
        ELSE IF db.applied <= 0
        THEN [code |-> 1, stdout |-> <<"Verified DB schema">>,
              stderr |-> <<"Expected at least 1 applied migration row">>]
        ELSE [code |-> 0,
              stdout |-> <<"Verified DB schema", "Verified migrations journal">>,
              stderr |-> <<>>]

\* the databases a drizzle-kit command can leave behind
NoDb == [tables |-> {}, columns |-> {}, applied |-> 0]

DbStates ==
    {NoDb,
     [tables |-> {USERS}, columns |-> {"id"}, applied |-> 0],
     [tables |-> {USERS}, columns |-> {"id", "name"}, applied |-> 0],
     [tables |-> {USERS, JOURNAL}, columns |-> {"id", "name"}, applied |-> 0],
     [tables |-> {USERS, JOURNAL}, columns |-> {"id", "name"}, applied |-> 1]}

\* result.success && output.includes("Verified DB schema")
verifyDbStep(name, args, db) ==
    LET result == verifyDb(args, db)
        output == result.stdout \o result.stderr
    IN  [name |-> name,
         success |-> /\ result.code = 0
                     /\ \E i \in 1..Len(output) : output[i] = "Verified DB schema"]

\* the StepResult of verifyPushDatabaseSchema
verifyPushDatabaseSchema(db) ==
    verifyDbStep("Verify push DB schema",
                 <<"--db", "./data-push", "--skip-migrations">>, db)

\* the StepResult of verifyDatabaseSchema
verifyDatabaseSchema(db) ==
    verifyDbStep("Verify migrated DB schema", <<>>, db)

(***************************************************************************)
(* The test harness: main, testVersion and the test runners                *)
(*                                                                         *)
(* The outcome of a command the harness spawns is an input of the step     *)
(* that spawns it.  The runners work on a record st: steps, the            *)
(* StepResults pushed so far in the version run; ctx, the TestContext;     *)
(* calls, the drizzle-kit commands spawned so far in the version run, each *)
(* with the runner that spawned it; success, the runner's result.          *)
(***************************************************************************)
\* --test lists at most this many names
MaxTests == 2

\* const AVAILABLE_TESTS = ["help", "generate", "migrate", "push", "pull"]
AVAILABLE_TESTS == <<"help", "generate", "migrate", "push", "pull">>

Available == {AVAILABLE_TESTS[i] : i \in 1..Len(AVAILABLE_TESTS)}

\* t.trim().toLowerCase() on the names a --test argument is made of
Normalise(t) == IF t = " Migrate" THEN "migrate" ELSE t

\* the values of args.test after split(","): undefined (no --test), a list
\* of names of tests, or a list with a name that is no test
TestArgs ==
    {<<>>, <<"studio">>}
    \cup UNION {[1..n -> Available \cup {" Migrate"}] : n \in 1..MaxTests}

\* the values of args._
VersionArgs == {<<>>, <<"0.30.6">>, <<"9.9.9", "0.31.9">>}

\* createTestContext()
createTestContext ==
    [generatedMigrations |-> FALSE, migratedDb |-> FALSE, pushedDb |-> FALSE]

Push(st, step) == [st EXCEPT !.steps = Append(@, step)]

Call(st, cmd, ok, by) ==
    [st EXCEPT !.calls = Append(@, [cmd |-> cmd, ok |-> ok, by |-> by])]

\* runHelpTest
runHelpTest(st, ok) ==
    [Push(Call(st, "--help", ok, "help"),
          [name |-> "Test drizzle-kit --help", success |-> ok])
     EXCEPT !.success = ok]

\* runGenerateTest, called by the runner by
runGenerateTest(st, ok, by) ==
    LET s1 == Push(Call(st, "generate", ok, by),
                   [name |-> "Test drizzle-kit generate", success |-> ok])
    IN  IF ~ok THEN [s1 EXCEPT !.success = FALSE]
        ELSE [s1 EXCEPT !.ctx.generatedMigrations = TRUE, !.success = TRUE]

\* the bug of a prerequisite that does not look at the context
runMigrateTest_always(st, genOk, migOk, db) ==
    LET s1 == runGenerateTest(st, genOk, "migrate")
    IN  IF ~s1.success THEN s1
        ELSE LET s2 == Push(Call(s1, "migrate", migOk, "migrate"),
                            [name |-> "Test drizzle-kit migrate",
                             success |-> migOk])
                 v == verifyDatabaseSchema(db)
             IN  IF ~migOk THEN [s2 EXCEPT !.success = FALSE]
                 ELSE IF ~v.success THEN [Push(s2, v) EXCEPT !.success = FALSE]
                 ELSE [Push(s2, v) EXCEPT !.ctx.migratedDb = TRUE,
                                          !.success = TRUE]

\* runMigrateTest; db is the database the migrate command leaves
runMigrateTest(st, genOk, migOk, db) ==
    LET s1 == IF ~st.ctx.generatedMigrations
              THEN runGenerateTest(st, genOk, "migrate")
              ELSE [st EXCEPT !.success = TRUE]
    IN  IF ~s1.success THEN s1
        ELSE LET s2 == Push(Call(s1, "migrate", migOk, "migrate"),
                            [name |-> "Test drizzle-kit migrate",
                             success |-> migOk])
                 v == verifyDatabaseSchema(db)
             IN  IF ~migOk THEN [s2 EXCEPT !.success = FALSE]
                 ELSE IF ~v.success THEN [Push(s2, v) EXCEPT !.success = FALSE]
                 ELSE [Push(s2, v) EXCEPT !.ctx.migratedDb = TRUE,
                                          !.success = TRUE]

\* runPushTest; db is the database the push command leaves
runPushTest(st, ok, db) ==
    LET s1 == Push(Call(st, "push", ok, "push"),
                   [name |-> "Test drizzle-kit push", success |-> ok])
        v == verifyPushDatabaseSchema(db)
    IN  IF ~ok THEN [s1 EXCEPT !.success = FALSE]
        ELSE IF ~v.success THEN [Push(s1, v) EXCEPT !.success = FALSE]
        ELSE [Push(s1, v) EXCEPT !.ctx.pushedDb = TRUE, !.success = TRUE]

\* runPullTest; schemaOk is the result of verifyPullSchema
runPullTest(st, ok, schemaOk) ==
    LET s1 == Push(Call(st, "pull", ok, "pull"),
                   [name |-> "Test drizzle-kit pull", success |-> ok])
        v == [name |-> "Verify pull schema", success |-> schemaOk]
    IN  IF ~ok THEN [s1 EXCEPT !.success = FALSE]
        ELSE [Push(s1, v) EXCEPT !.success = schemaOk]

\* the runner's record of the harness state, and back
RunnerState(hh) ==
    [steps |-> hh.steps, ctx |-> hh.ctx, calls |-> hh.calls, success |-> TRUE]

\* testVersion returns: results.push(result) in main, and the next version
EndVersion(hh, ok) ==
    [hh EXCEPT !.results = Append(@, [version |-> hh.versions[hh.vi],
                                      success |-> ok]),
               !.vi = @ + 1,
               !.at = IF hh.vi < Len(hh.versions) THEN "setup" ELSE "summary"]

\* the bug of a failed step that is recorded without ending the version run
AfterStep_continue(hh, step, next) ==
    [hh EXCEPT !.steps = Append(@, step), !.at = next]

\* a step of testVersion that ends the version run when it fails
AfterStep(hh, step, next) ==
    LET h1 == [hh EXCEPT !.steps = Append(@, step)]
    IN  IF step.success THEN [h1 EXCEPT !.at = next] ELSE EndVersion(h1, FALSE)

\* the loop over testsToRun after a runner returned st
AfterTest(hh, st) ==
    LET h1 == [hh EXCEPT !.steps = st.steps, !.ctx = st.ctx,
                         !.calls = st.calls]
    IN  IF ~st.success THEN EndVersion(h1, FALSE)
        ELSE IF hh.ti < Len(hh.tests) THEN [h1 EXCEPT !.ti = @ + 1]
        ELSE EndVersion(h1, TRUE)

\* the patcher does not run while the harness is looked at on its own
PatcherIdle ==
    /\ bin = [present |-> FALSE, text |-> <<>>]
    /\ origin = "absent"
    /\ pc = [p \in Procs |-> "idle"]
    /\ content = [p \in Procs |-> <<>>]
    /\ results = [p \in Procs |-> <<>>]
    /\ idx = [p \in Procs |-> 0]
    /\ exitCode = [p \in Procs |-> -1]
    /\ out = [p \in Procs |-> <<>>]
    /\ before = [p \in Procs |-> bin]
    /\ writes = [p \in Procs |-> 0]
    /\ runs = 0
    /\ after1 = bin
    /\ ap = <<>>
    /\ version = "unknown"
    /\ prev = [p \in Procs |-> <<>>]
    /\ ret = [p \in Procs |-> [kind |-> "pending"]]
    /\ log = [p \in Procs |-> <<>>]
    /\ bin0 = bin

patcherVars == <<bin, pc, content, results, idx, exitCode, out, before,
                 writes, origin, runs, after1, ap, version, prev, ret, log,
                 bin0>>

\* the harness is started: parseArgs(Deno.args)
InitHarness ==
    /\ PatcherIdle
    /\ rc = NoCommand
    /\ \E quick \in BOOLEAN, keep \in BOOLEAN, test \in TestArgs,
          positional \in VersionArgs :
          h = [at |-> "main", quick |-> quick, keep |-> keep, test |-> test,
               positional |-> positional, tests |-> <<>>, versions |-> <<>>,
               vi |-> 0, ti |-> 0, ctx |-> createTestContext, steps |-> <<>>,
               calls |-> <<>>, results |-> <<>>, warned |-> {},
               dir |-> FALSE, db |-> NoDb, pushDb |-> NoDb, code |-> -1]

\* main up to its loop: the --test option, the versions, their validation
Main ==
    /\ h.at = "main"
    /\ LET requestedTests == [i \in 1..Len(h.test) |-> Normalise(h.test[i])]
           invalidTests == SelectSeq(requestedTests, LAMBDA t : t \notin Available)
           versionsToTest == IF Len(h.positional) > 0 THEN h.positional
                             ELSE TEST_SUPPORTED_VERSIONS
       IN  IF Len(h.test) > 0 /\ Len(invalidTests) > 0
           THEN h' = [h EXCEPT !.at = "exited", !.code = 1]
           ELSE h' = [h EXCEPT
                        !.at = "setup",
                        !.tests = IF Len(h.test) > 0 THEN requestedTests
                                  ELSE AVAILABLE_TESTS,
                        !.versions = versionsToTest,
                        !.vi = 1,
                        !.warned =
                            {versionsToTest[i] : i \in
                                {j \in 1..Len(versionsToTest) :
                                    \A k \in 1..Len(TEST_SUPPORTED_VERSIONS) :
                                        TEST_SUPPORTED_VERSIONS[k] # versionsToTest[j]}}]
    /\ UNCHANGED <<patcherVars, rc>>

\* testVersion, step 1: setupTestEnvironment
SetupEnvironment ==
    /\ h.at = "setup"
    /\ h' = [h EXCEPT !.at = "install",
                      !.steps = <<[name |-> "Setup environment", success |-> TRUE]>>,
                      !.calls = <<>>,
                      !.ctx = createTestContext,
                      !.ti = 0,
                      !.db = NoDb,
                      !.pushDb = NoDb,
                      !.dir = TRUE]
    /\ UNCHANGED <<patcherVars, rc>>

\* testVersion, step 2: installDependencies
InstallDependencies ==
    /\ h.at = "install"
    /\ \E ok \in BOOLEAN :
          h' = AfterStep(h, [name |-> "Install dependencies", success |-> ok],
                         "copy")
    /\ UNCHANGED <<patcherVars, rc>>

\* testVersion, step 3: copyPatchScript
CopyPatchScript ==
    /\ h.at = "copy"
    /\ \E ok \in BOOLEAN :
          h' = AfterStep(h, [name |-> "Copy patch script", success |-> ok],
                         "patch")
    /\ UNCHANGED <<patcherVars, rc>>

\* testVersion, step 4: runPatchScript on the patcher process's exit status
\* and output
ApplyPatchStep ==
    /\ h.at = "patch"
    /\ \E code \in {0, 1},
          output \in {<< <<"Patched drizzle-kit successfully">> >>,
                      << <<"drizzle-kit already patched (v10)">> >>,
                      << <<"Some non-critical patches failed, but drizzle-kit should work">> >>,
                      << <<"Critical patches failed - drizzle-kit may not work correctly">> >>} :
          h' = AfterStep(h, runPatchScript(code, output), "marker")
    /\ UNCHANGED <<patcherVars, rc>>

\* testVersion, step 5: verifyPatchMarker on the artifact it finds
VerifyMarkerStep ==
    /\ h.at = "marker"
    /\ \E b \in {[present |-> FALSE, text |-> <<>>],
                 [present |-> TRUE, text |-> PATCH_MARKER \o <<NL>>],
                 [present |-> TRUE, text |-> TEST_PATCH_MARKER \o <<NL>>]} :
          h' = AfterStep(h, verifyPatchMarker(b), "verify")
    /\ UNCHANGED <<patcherVars, rc>>

\* testVersion, step 6: verifyAllPatches on the artifact it finds, and the
\* start of the runtime tests unless --quick
VerifyAllStep ==
    /\ h.at = "verify"
    /\ \E b \in {[present |-> FALSE, text |-> <<>>],
                 [present |-> TRUE, text |-> <<WALK_RET, REGISTER_RET, IMPORT_NOTE>>],
                 [present |-> TRUE,
                  text |-> <<WALK_RET, REGISTER_RET, IMPORT_NOTE, RUN_EXIT>>]} :
          LET h1 == AfterStep(h, verifyAllPatches(b), "tests")
          IN  h' = IF h1.at = "tests"
                   THEN IF h.quick THEN EndVersion(h1, TRUE)
                        ELSE [h1 EXCEPT !.ctx = createTestContext, !.ti = 1]
                   ELSE h1
    /\ UNCHANGED <<patcherVars, rc>>

\* the loop body for TEST_RUNNERS.help
RunHelpTest ==
    /\ h.at = "tests"
    /\ h.tests[h.ti] = "help"
    /\ \E ok \in BOOLEAN : h' = AfterTest(h, runHelpTest(RunnerState(h), ok))
    /\ UNCHANGED <<patcherVars, rc>>

\* the loop body for TEST_RUNNERS.generate
RunGenerateTest ==
    /\ h.at = "tests"
    /\ h.tests[h.ti] = "generate"
    /\ \E ok \in BOOLEAN :
          h' = AfterTest(h, runGenerateTest(RunnerState(h), ok, "generate"))
    /\ UNCHANGED <<patcherVars, rc>>

\* the loop body for TEST_RUNNERS.migrate
RunMigrateTest ==
    /\ h.at = "tests"
    /\ h.tests[h.ti] = "migrate"
    /\ \E genOk \in BOOLEAN, migOk \in BOOLEAN, db \in DbStates :
          LET st == runMigrateTest(RunnerState(h), genOk, migOk, db)
              ran == \E k \in 1..Len(st.calls) :
                        st.calls[k].cmd = "migrate" /\ st.calls[k].ok
          IN  h' = [AfterTest(h, st) EXCEPT !.db = IF ran THEN db ELSE h.db]
    /\ UNCHANGED <<patcherVars, rc>>

\* the loop body for TEST_RUNNERS.push
RunPushTest ==
    /\ h.at = "tests"
    /\ h.tests[h.ti] = "push"
    /\ \E ok \in BOOLEAN, db \in DbStates :
          h' = [AfterTest(h, runPushTest(RunnerState(h), ok, db))
                EXCEPT !.pushDb = IF ok THEN db ELSE h.pushDb]
    /\ UNCHANGED <<patcherVars, rc>>

\* ensurePullDbSchema: it returns when its setup script succeeded and
\* throws an Error when it failed
ensurePullDbSchema(success) == IF success THEN "returned" ELSE "thrown"

\* an Error nothing catches: it leaves the runner, testVersion and main, and
\* the process ends with exit status 1
Uncaught(hh) == [hh EXCEPT !.at = "crashed", !.code = 1]

\* the loop body for TEST_RUNNERS.pull; runPullTest starts with
\* await ensurePullDbSchema(testDir)
RunPullTest ==
    /\ h.at = "tests"
    /\ h.tests[h.ti] = "pull"
    /\ \E setupOk \in BOOLEAN, ok \in BOOLEAN, schemaOk \in BOOLEAN :
          h' = IF ensurePullDbSchema(setupOk) = "thrown" THEN Uncaught(h)
               ELSE AfterTest(h, runPullTest(RunnerState(h), ok, schemaOk))
    /\ UNCHANGED <<patcherVars, rc>>

\* main after its loop: the summary, cleanup unless --keep, Deno.exit
Summary ==
    /\ h.at = "summary"
    /\ h' = [h EXCEPT
               !.at = "exited",
               !.dir = IF h.keep THEN @ ELSE FALSE,
               !.code = IF \E i \in 1..Len(h.results) : ~h.results[i].success
                        THEN 1 ELSE 0]
    /\ UNCHANGED <<patcherVars, rc>>

NextHarness ==
    \/ Main
    \/ SetupEnvironment
    \/ InstallDependencies
    \/ CopyPatchScript
    \/ ApplyPatchStep
    \/ VerifyMarkerStep
    \/ VerifyAllStep
    \/ RunHelpTest
    \/ RunGenerateTest
    \/ RunMigrateTest
    \/ RunPushTest
    \/ RunPullTest
    \/ Summary

SpecHarness == InitHarness /\ [][NextHarness]_vars

(***************************************************************************)
(* runCommand on its own: one call, its child process and its timer        *)
(*                                                                         *)
(* now counts the time since the call.  The child is running or has        *)
(* ended; it ends on its own or not at all, and it ends on SIGTERM or      *)
(* ignores it.  The promise of process.output() is settled after the child *)
(* has ended, and the statements after the await run in the same turn of   *)
(* the event loop, before any timer callback.  A timer callback runs at    *)
(* or after the time it is set for.                                        *)
(***************************************************************************)
\* time is counted up to this
MaxTime == 3

\* the values of options.timeout
Timeouts == {1, 2}

\* the exit status of a child ended by SIGTERM
SIGTERM_CODE == 143

InitRunCommand ==
    /\ PatcherIdle
    /\ h = NoHarness
    /\ \E timeout \in Timeouts, exits \in BOOLEAN,
          onTerm \in {"exit", "ignore"}, code \in {0, 1} :
          rc = [pos |-> "called", timeout |-> timeout, exits |-> exits,
                onTerm |-> onTerm, exitCode |-> code, now |-> 0,
                child |-> "none", timer |-> "none", pending |-> FALSE,
                kills |-> <<>>, status |-> -1, returnedAt |-> -1]

\* command.spawn(); const timeoutId = setTimeout(..., timeout); the call
\* then waits in await process.output()
Spawn ==
    /\ rc.pos = "called"
    /\ rc' = [rc EXCEPT !.pos = "awaiting", !.child = "running",
                        !.timer = "armed"]
    /\ UNCHANGED <<patcherVars, h>>

\* time passes
Tick ==
    /\ rc.pos # "off"
    /\ rc.now < MaxTime
    /\ rc' = [rc EXCEPT !.now = @ + 1]
    /\ UNCHANGED <<patcherVars, h>>

\* the child ends on its own
ChildExits ==
    /\ rc.pos # "off"
    /\ rc.child = "running"
    /\ rc.exits
    /\ rc' = [rc EXCEPT !.child = "ended", !.status = rc.exitCode,
                        !.pending = FALSE]
    /\ UNCHANGED <<patcherVars, h>>

\* the child ends on the SIGTERM it was sent
ChildTerminated ==
    /\ rc.pos # "off"
    /\ rc.child = "running"
    /\ rc.pending
    /\ rc.onTerm = "exit"
    /\ rc' = [rc EXCEPT !.child = "ended", !.status = SIGTERM_CODE,
                        !.pending = FALSE]
    /\ UNCHANGED <<patcherVars, h>>

\* the timer callback: try { process.kill("SIGTERM") } catch {}.  For a
\* child that has ended and whose output is not yet collected the call
\* throws or signals a process that is gone
TimerFires ==
    /\ rc.pos # "off"
    /\ rc.timer = "armed"
    /\ rc.now >= rc.timeout
    /\ \E outcome \in {"sent", "thrown"} :
          /\ rc.child = "running" => outcome = "sent"
          /\ rc' = [rc EXCEPT
                      !.timer = "fired",
                      !.pending = (rc.child = "running"),
                      !.kills = Append(@, [at |-> rc.now, pos |-> rc.pos,
                                           child |-> rc.child,
                                           outcome |-> outcome])]
    /\ UNCHANGED <<patcherVars, h>>

\* the bug of leaving out clearTimeout(timeoutId)
OutputCompletes_noClear ==
    /\ rc.pos = "awaiting"
    /\ rc.child = "ended"
    /\ rc' = [rc EXCEPT !.pos = "returned", !.returnedAt = rc.now]
    /\ UNCHANGED <<patcherVars, h>>

\* the promise of process.output() is fulfilled; clearTimeout(timeoutId);
\* return { success, code, stdout, stderr }
OutputCompletes ==
    /\ rc.pos = "awaiting"
    /\ rc.child = "ended"
    /\ rc' = [rc EXCEPT !.pos = "returned", !.returnedAt = rc.now,
                        !.timer = IF @ = "armed" THEN "cleared" ELSE @]
    /\ UNCHANGED <<patcherVars, h>>

NextRunCommand ==
    \/ Spawn
    \/ Tick
    \/ ChildExits
    \/ ChildTerminated
    \/ TimerFires
    \/ OutputCompletes

\* the event loop runs what is ready: a fulfilled promise's continuation
\* and the delivery of a signal are not put off for ever
SpecRunCommand ==
    /\ InitRunCommand
    /\ [][NextRunCommand]_vars
    /\ WF_vars(Spawn)
    /\ WF_vars(OutputCompletes)
    /\ WF_vars(ChildTerminated)

(***************************************************************************)
(* applyPatch on its own: one call on a small text                         *)
(***************************************************************************)
\* the texts handed to a lone applyPatch are at most this long
MaxLen == 3

ApTokens == {WALK_SIG, CONFIG_REQUIRE, NL}

ApTexts == UNION {[1..n -> ApTokens] : n \in 0..MaxLen}

ApPatterns ==
    {Re({WALK_SIG}),
     [Re({WALK_SIG}) EXCEPT !.global = FALSE],
     ReGroup(CONFIG_REQUIRE :> <<"path">>),
     ReGroup((CONFIG_REQUIRE :> <<CONFIG_REQUIRE>>) @@ (WALK_SIG :> <<WALK_SIG>>))}

ApTemplates ==
    {<<WALK_SIG, NL, WALK_RET>>,
     <<CONFIG_IMPORT, "$1", IMPORT_END, IMPORT_NOTE>>,
     <<WALK_SIG>>,
     <<"$1">>,
     <<>>}

InitApply ==
    /\ \E text \in ApTexts, pattern \in ApPatterns, template \in ApTemplates :
          ap = [done |-> FALSE, text |-> text, name |-> "rule",
                pattern |-> pattern, replacement |-> template]
    /\ bin = [present |-> FALSE, text |-> <<>>]
    /\ origin = "absent"
    /\ pc = [p \in Procs |-> "idle"]
    /\ content = [p \in Procs |-> <<>>]
    /\ results = [p \in Procs |-> <<>>]
    /\ idx = [p \in Procs |-> 0]
    /\ exitCode = [p \in Procs |-> -1]
    /\ out = [p \in Procs |-> <<>>]
    /\ before = [p \in Procs |-> bin]
    /\ writes = [p \in Procs |-> 0]
    /\ runs = 0
    /\ after1 = bin
    /\ version = "unknown"
    /\ prev = [p \in Procs |-> <<>>]
    /\ ret = [p \in Procs |-> [kind |-> "pending"]]
    /\ h = NoHarness
    /\ log = [p \in Procs |-> <<>>]
    /\ bin0 = bin
    /\ rc = NoCommand

\* const { content: newContent, result } = applyPatch(content, name, ...)
ApplyOnce ==
    /\ ~ap.done
    /\ ap' = [done |-> TRUE, text |-> ap.text, name |-> ap.name,
              pattern |-> ap.pattern, replacement |-> ap.replacement,
              r |-> applyPatch(ap.text, ap.name, ap.pattern, ap.replacement)]
    /\ UNCHANGED <<bin, pc, content, results, idx, exitCode, out, before,
                   writes, origin, runs, after1, version, prev, ret, h, log,
                   bin0, rc>>

NextApply == ApplyOnce

SpecApply == InitApply /\ [][NextApply]_vars

(***************************************************************************)
(* Properties                                                              *)
(***************************************************************************)
\* number of positions at which lit occurs in text
Occurrences(text, lit) ==
    Cardinality({i \in 1..Len(text) :
                    /\ i + Len(lit) - 1 <= Len(text)
                    /\ SubSeq(text, i, i + Len(lit) - 1) = lit})

\* no token of the text starts a match of rule i
PatternAbsent(i, text) ==
    \A j \in 1..Len(text) : text[j] \notin RULES[i].pattern.toks

CriticalAbsent(text) ==
    \E i \in 1..NumRules :
        RULES[i].name \in criticalPatches /\ PatternAbsent(i, text)

\* every critical rule has a result in res and it is a success
CriticalComplete(res) ==
    \A n \in criticalPatches :
        \E i \in 1..Len(res) : res[i].name = n /\ res[i].success

Started(p) == pc[p] # "idle"

\* C1: when the artifact a run starts on lacks the pattern of a critical
\* rule and does not carry the current marker, the run never writes: the
\* artifact stays what it was when the run started, the run never reaches
\* the write, and it ends aborted with exit status 1.
C1_AbortWithoutWrite ==
    \A p \in Procs :
        (/\ Started(p)
         /\ before[p].present
         /\ CriticalAbsent(before[p].text)
         /\ Occurrences(before[p].text, PATCH_MARKER) = 0)
        => /\ writes[p] = 0
           /\ bin = before[p]
           /\ pc[p] \notin {"write", "committed", "done", "not-found"}
           /\ pc[p] = "aborted" => exitCode[p] = 1

C1_Witness ==
    /\ pc[1] = "aborted"
    /\ before[1].present
    /\ CriticalAbsent(before[1].text)
    /\ Occurrences(before[1].text, PATCH_MARKER) = 0
    /\ \E i \in 1..Len(results[1]) : results[1][i].success

\* C2: at every point of a run the artifact on disk is the text the run
\* started on, or it is the run's buffer after all the rules ran with every
\* critical rule applied.
C2_NeverPartial ==
    \A p \in Procs :
        Started(p) =>
            \/ bin = before[p]
            \/ /\ bin.text = content[p]
               /\ Len(results[p]) = NumRules
               /\ CriticalComplete(results[p])

C2_Witness ==
    /\ pc[1] = "committed"
    /\ bin # before[1]
    /\ hasFailure(results[1])
    /\ CriticalComplete(results[1])

\* C3 as stated: whenever the artifact a run starts on has the pattern of
\* every critical rule, the run ends having written the artifact and the
\* artifact carries the current marker exactly once.
C3_AlwaysCommits ==
    \A p \in Procs :
        (/\ pc[p] \in Terminal
         /\ before[p].present
         /\ ~CriticalAbsent(before[p].text))
        => /\ writes[p] = 1
           /\ Occurrences(bin.text, PATCH_MARKER) = 1

\* C3 amended: whenever the artifact a run starts on does not carry the
\* current marker and has the pattern of every critical rule, whatever
\* the optional rules find, the run ends having written the artifact once
\* and the artifact carries the current marker exactly once.
C3_CommitsUnlessMarked ==
    \A p \in Procs :
        (/\ pc[p] \in Terminal
         /\ before[p].present
         /\ Occurrences(before[p].text, PATCH_MARKER) = 0
         /\ ~CriticalAbsent(before[p].text))
        => /\ pc[p] = "done"
           /\ writes[p] = 1
           /\ bin.text = content[p]
           /\ Occurrences(bin.text, PATCH_MARKER) = 1

C3_Witness ==
    /\ pc[1] = "done"
    /\ writes[1] = 1
    /\ Occurrences(before[1].text, PATCH_MARKER) = 0
    /\ ~CriticalAbsent(before[1].text)
    /\ hasFailure(results[1])
    /\ Occurrences(bin.text, PATCH_MARKER) = 1

\* C4: a run that has read an artifact carrying the current marker attempts
\* no rule, does not write, leaves the artifact as it was, and ends done
\* with exit status 0.
C4_AlreadyPatchedNoop ==
    \A p \in Procs :
        (/\ pc[p] \notin {"idle", "start", "located"}
         /\ before[p].present
         /\ Occurrences(before[p].text, PATCH_MARKER) > 0)
        => /\ results[p] = <<>>
           /\ idx[p] = 0
           /\ writes[p] = 0
           /\ bin = before[p]
           /\ pc[p] \in {"read", "done"}
           /\ pc[p] = "done" => exitCode[p] = 0

C4_Witness ==
    /\ pc[1] = "done"
    /\ exitCode[1] = 0
    /\ before[1].present
    /\ Occurrences(before[1].text, PATCH_MARKER) > 0
    /\ out[1][Len(out[1])] = <<"drizzle-kit already patched (v10)">>

\* C5: at the end of every run after the first, the artifact is what the
\* first run left.
C5_Idempotent ==
    \A p \in Procs : (runs >= 1 /\ pc[p] \in Terminal) => bin = after1

C5_Witness ==
    /\ runs = 2
    /\ pc[1] = "done"
    /\ writes[1] = 0
    /\ origin = "raw"
    /\ Occurrences(bin.text, PATCH_MARKER) = 1
    /\ Occurrences(bin.text, <<REGISTER_RET>>) > 0

\* C6 as stated: the first run on an artifact that an earlier release of
\* the same rule list rewrote and marked runs all the rules and ends done,
\* having written its buffer, in which the new marker stands before the old
\* one.
C6_RepatchCommits ==
    \A p \in Procs :
        (origin = "older-release" /\ runs = 1 /\ pc[p] \in Terminal)
        => /\ pc[p] = "done"
           /\ Len(results[p]) = NumRules
           /\ writes[p] = 1
           /\ bin.text = content[p]
           /\ Occurrences(bin.text, PATCH_MARKER) = 1
           /\ Occurrences(bin.text, OLD_MARKER) = 1

\* C7 as stated: after a run that committed, verifyAllPatches finds no
\* critical patch missing in the artifact.
C7_CommittedVerifies ==
    \A p \in Procs :
        (pc[p] = "done" /\ writes[p] = 1) => verifyAllPatches(bin).success

\* C8: a finished run has exit status 0 or 1; it is 0 exactly when the run
\* wrote the artifact or stopped at the marker check without attempting a
\* rule, and 1 exactly when there was no artifact or a critical rule has a
\* failed result.
C8_ExitStatus ==
    \A p \in Procs :
        pc[p] \in Terminal =>
            /\ exitCode[p] \in {0, 1}
            /\ exitCode[p] = 0 <=>
                  \/ writes[p] = 1
                  \/ /\ before[p].present
                     /\ Occurrences(before[p].text, PATCH_MARKER) > 0
                     /\ results[p] = <<>>
                     /\ writes[p] = 0
            /\ exitCode[p] = 1 <=>
                  \/ ~before[p].present
                  \/ \E i \in 1..Len(results[p]) :
                        /\ results[p][i].name \in criticalPatches
                        /\ ~results[p][i].success

C8_Witness ==
    /\ pc[1] = "not-found"
    /\ exitCode[1] = 1
    /\ ~before[1].present
    /\ results[1] = <<>>

\* the names of the results, in the order of the list
ResultNames(res) == [i \in 1..Len(res) |-> res[i].name]

\* C9: while the rules run, the results are those of the rules before the
\* next one, one each and in list order; once a run is past the rules,
\* also after a failed critical rule, its results are those of the whole
\* rule list, one each and in list order.
C9_NotFailFast ==
    \A p \in Procs :
        /\ pc[p] = "rule" =>
              /\ idx[p] \in 1..NumRules
              /\ ResultNames(results[p]) = SubSeq(RuleNames, 1, idx[p] - 1)
        /\ (\/ pc[p] \in {"report", "gate", "write", "committed", "aborted"}
            \/ pc[p] = "done" /\ writes[p] = 1)
           => ResultNames(results[p]) = RuleNames

C9_Witness ==
    /\ pc[1] = "aborted"
    /\ ~results[1][12].success
    /\ results[1][12].name \in criticalPatches
    /\ results[1][13].success
    /\ results[1][NumRules].success
    /\ ResultNames(results[1]) = RuleNames

\* C10: applyPatch has exactly three outcomes.  No token of the text
\* starts a match: the text comes back unchanged with the error "Pattern
\* not found".  There is a match and the replaced text equals the text: the
\* text comes back unchanged with the error "Replacement had no effect".
\* There is a match and the replaced text differs: the replaced text comes
\* back with success and no error.  The two errors differ.
C10_ThreeOutcomes ==
    ap.done =>
        LET matched == \E i \in 1..Len(ap.text) : ap.text[i] \in ap.pattern.toks
            new == Replace(ap.text, ap.pattern, ap.replacement)
            r == ap.r
        IN  /\ r.result.name = ap.name
            /\ ~matched =>
                  /\ r.content = ap.text
                  /\ ~r.result.success
                  /\ r.result.error = "Pattern not found"
            /\ (matched /\ new = ap.text) =>
                  /\ r.content = ap.text
                  /\ ~r.result.success
                  /\ r.result.error = "Replacement had no effect"
            /\ (matched /\ new # ap.text) =>
                  /\ r.content = new
                  /\ r.content # ap.text
                  /\ r.result.success
                  /\ "error" \notin DOMAIN r.result
            /\ "Pattern not found" # "Replacement had no effect"

C10_Witness ==
    /\ ap.done
    /\ \E i \in 1..Len(ap.text) : ap.text[i] \in ap.pattern.toks
    /\ ~ap.r.result.success
    /\ ap.r.result.error = "Replacement had no effect"

\* C11: the buffer a rule block leaves is the buffer it received whenever
\* its result is a failure (pattern not found, or no effect), and differs
\* from it whenever its result is a success; the buffer it leaves is the
\* one the next rule block reads.
C11_FailedRuleKeepsBuffer ==
    \A p \in Procs :
        Len(results[p]) >= 1 =>
            LET r == results[p][Len(results[p])]
            IN  /\ ~r.success => content[p] = prev[p]
                /\ r.success => content[p] # prev[p]

C11_Witness ==
    /\ pc[1] = "rule"
    /\ idx[1] = 6
    /\ results[1][4].success
    /\ ~results[1][5].success
    /\ results[1][5].error = "Pattern not found"
    /\ content[1] = prev[1]
    /\ content[1] # InsertMarker(before[1].text, PATCH_MARKER)

\* C12 as stated: the buffer an applied rule leaves is the buffer it
\* received with every match of the rule's pattern replaced, for each of
\* the rules, the CLI exit handler among them.
C12_GlobalReplace ==
    \A p \in Procs :
        (Len(results[p]) >= 1 /\ results[p][Len(results[p])].success) =>
            LET rule == RULES[Len(results[p])]
            IN  content[p] =
                    Replace(prev[p], [rule.pattern EXCEPT !.global = TRUE],
                            rule.replacement)

\* the first line of a text, without its newline
FirstLine(text) ==
    IF FirstNewline(text) = 0 THEN text
    ELSE SubSeq(text, 1, FirstNewline(text) - 1)

\* C13 as stated: in the buffer handed to the first rule, when the artifact
\* starts with the shebang, the first line is still the artifact's first
\* line, shebang first, and the marker stands right after the newline that
\* ends it, also when the artifact has no newline; otherwise the buffer is
\* the marker, a newline and the artifact.
C13_MarkerAfterShebang ==
    \A p \in Procs :
        (pc[p] = "rule" /\ idx[p] = 1) =>
            IF StartsWithShebang(before[p].text)
            THEN LET k == FirstNewline(content[p])
                 IN  /\ content[p][1] = SHEBANG
                     /\ k > 0
                     /\ FirstLine(content[p]) = FirstLine(before[p].text)
                     /\ SubSeq(content[p], k + 1, k + Len(PATCH_MARKER) + 1)
                            = PATCH_MARKER \o <<NL>>
            ELSE content[p] = PATCH_MARKER \o <<NL>> \o before[p].text

\* what a run makes of an artifact text, told without the version: its
\* results, its exit status, whether it writes, and the artifact it leaves
PatchOutcome(text) ==
    IF Includes(text, PATCH_MARKER)
    THEN [results |-> <<>>, exitCode |-> 0, wrote |-> FALSE, text |-> text]
    ELSE LET r == RunRules(InsertMarker(text, PATCH_MARKER), <<>>, 1)
         IN  IF Len(criticalFailures(r.results)) > 0
             THEN [results |-> r.results, exitCode |-> 1, wrote |-> FALSE,
                   text |-> text]
             ELSE [results |-> r.results, exitCode |-> 0, wrote |-> TRUE,
                   text |-> r.content]

\* the two lines the version gate prints
GateWarned(p) ==
    \E i \in 1..Len(out[p]) : out[p][i] = <<"Attempting to patch anyway...">>

\* C14: the rule results, the exit status, the decision to write and the
\* artifact a finished run leaves are determined by the artifact text the
\* run started on alone; so two runs on the same text whose versions
\* differ (in the list, not in the list, unknown) agree on all four, and no
\* version ends a run.
C14_VersionGateNeutral ==
    \A p \in Procs :
        (pc[p] \in Terminal /\ before[p].present) =>
            [results |-> results[p], exitCode |-> exitCode[p],
             wrote |-> (writes[p] = 1), text |-> bin.text]
                = PatchOutcome(before[p].text)

C14_Witness ==
    /\ pc[1] = "done"
    /\ writes[1] = 1
    /\ ~Supported(version)
    /\ version # "unknown"
    /\ GateWarned(1)
    /\ exitCode[1] = 0
    /\ hasFailure(results[1])

\* C15 as stated: a finished run has handed its caller a value that holds
\* the ordered per-rule results and an overall success flag.
C15_ReturnsResults ==
    \A p \in Procs :
        pc[p] \in Terminal =>
            /\ ret[p].kind = "value"
            /\ ret[p].results = results[p]
            /\ ret[p].success = (exitCode[p] = 0)

\* the position of the "Patch results:" line in the output, 0 when absent
ReportAt(o) ==
    LET hits == {i \in 1..Len(o) : o[i] = <<"Patch results:">>}
    IN  IF hits = {} THEN 0 ELSE Min(hits)

\* C15 amended: a finished run has handed its caller no value: it returned
\* without one (committed, already patched) or ended the process (aborted,
\* not found), and it returned exactly when the exit status is 0.  The
\* per-rule results reach the caller as console lines only: when rules ran,
\* the line "Patch results:" is followed by one line per result, in list
\* order, that names the rule and, for a failure, its error; when no rule
\* ran there are no such lines.
C15_ReportsOnConsole ==
    \A p \in Procs :
        pc[p] \in Terminal =>
            /\ ret[p].kind \in {"void", "exit"}
            /\ ret[p].kind = "void" <=> exitCode[p] = 0
            /\ DOMAIN ret[p] = {"kind"}
            /\ IF results[p] = <<>> THEN ReportAt(out[p]) = 0
               ELSE LET at == ReportAt(out[p])
                    IN  /\ at > 0
                        /\ Len(out[p]) >= at + Len(results[p])
                        /\ \A k \in 1..Len(results[p]) :
                              LET line == out[p][at + k]
                                  r == results[p][k]
                              IN  /\ line[2] = r.name
                                  /\ r.success <=> Len(line) = 2
                                  /\ ~r.success => line[4] = r.error

C15_Witness ==
    /\ pc[1] = "aborted"
    /\ ret[1].kind = "exit"
    /\ ReportAt(out[1]) > 0
    /\ Len(results[1]) = NumRules
    /\ \E k \in 1..NumRules : results[1][k].success

\* C16 as stated: a run that found an artifact of a version the harness
\* tests by default has found that version in the patcher's own list and
\* has printed no compatibility warning.
C16_TestedVersionsSupported ==
    \A p \in Procs :
        (/\ pc[p] \notin {"idle", "start"}
         /\ before[p].present
         /\ \E i \in 1..Len(TEST_SUPPORTED_VERSIONS) :
               TEST_SUPPORTED_VERSIONS[i] = version)
        => /\ Supported(version)
           /\ ~GateWarned(p)

\* C17 as stated: after a run that committed, verifyPatchMarker finds its
\* marker in the artifact.
C17_MarkerVerifies ==
    \A p \in Procs :
        (pc[p] = "done" /\ writes[p] = 1) => verifyPatchMarker(bin).success

\* C18 as stated: a finished run in which every critical rule applied has
\* exit status 0 and runPatchScript takes it for a success.
C18_CriticalAppliedIsSuccess ==
    \A p \in Procs :
        (pc[p] \in Terminal /\ CriticalComplete(results[p])) =>
            /\ exitCode[p] = 0
            /\ runPatchScript(exitCode[p], out[p]).success

\* the last StepResult of the version run is the step called name
LastStepIs(name) ==
    /\ h.at # "off"
    /\ Len(h.steps) >= 1
    /\ h.steps[Len(h.steps)].name = name

\* C19 as stated: when the push test has verified a database that has the
\* table public.users with the columns id and name and no table
\* __drizzle_migrations, the step "Verify push DB schema" is a success.
C19_PushCheckSkipsJournal ==
    (/\ LastStepIs("Verify push DB schema")
     /\ USERS \in h.pushDb.tables
     /\ {"id", "name"} \subseteq h.pushDb.columns
     /\ JOURNAL \notin h.pushDb.tables)
    => h.steps[Len(h.steps)].success

\* a generate command succeeded among the first k - 1 commands of the
\* version run
GeneratedBefore(k) ==
    \E j \in 1..(k - 1) : h.calls[j].cmd = "generate" /\ h.calls[j].ok

\* C20: in a version run, whatever tests --test names and in whatever
\* order, every migrate command comes after a generate command of the same
\* version run that succeeded, and the migrate runner spawns a generate
\* command only when none has succeeded before in the version run.
C20_MigrateAfterGenerate ==
    h.at # "off" =>
        \A k \in 1..Len(h.calls) :
            /\ h.calls[k].cmd = "migrate" => GeneratedBefore(k)
            /\ (h.calls[k].cmd = "generate" /\ h.calls[k].by = "migrate")
                  => ~GeneratedBefore(k)

C20_Witness ==
    /\ h.at # "off"
    /\ h.test = <<"generate", " Migrate">>
    /\ Len(h.calls) = 2
    /\ h.calls[1] = [cmd |-> "generate", ok |-> TRUE, by |-> "generate"]
    /\ h.calls[2].cmd = "migrate"
    /\ h.ctx.generatedMigrations

\* the file operations and the rule blocks of a log, in order
IoOf(l) == SelectSeq(l, LAMBDA e : e \in {"read", "rule", "write"})

\* one read, the rule blocks, one write
Lifecycle == <<"read">> \o [i \in 1..NumRules |-> "rule"] \o <<"write">>

IsPrefix(s, t) == Len(s) <= Len(t) /\ SubSeq(t, 1, Len(s)) = s

\* the event e is in the log l
Logged(l, e) == \E i \in 1..Len(l) : l[i] = e

\* C21: the file operations and rule blocks of a run are, in this order and
\* with nothing between them, one read of the artifact, the rule blocks,
\* and one write; a run that found an artifact and finished has read it
\* exactly once; a run has written exactly when it committed, and then no
\* critical rule had failed and the rule after the last had been reached.
C21_ReadOnceWriteOnce ==
    \A p \in Procs :
        /\ IsPrefix(IoOf(log[p]), Lifecycle)
        /\ (pc[p] \in Terminal /\ before[p].present)
              => Len(SelectSeq(log[p], LAMBDA e : e = "read")) = 1
        /\ ~before[p].present => IoOf(log[p]) = <<>>
        /\ writes[p] = Len(SelectSeq(log[p], LAMBDA e : e = "write"))
        /\ Logged(log[p], "write") <=> Logged(log[p], "committed")
        /\ Logged(log[p], "write") =>
              /\ IoOf(log[p]) = Lifecycle
              /\ Len(results[p]) = NumRules
              /\ criticalFailures(results[p]) = <<>>

C21_Witness ==
    /\ pc[1] = "done"
    /\ IoOf(log[1]) = Lifecycle
    /\ hasFailure(results[1])
    /\ bin # before[1]

\* the states of the life of a run
LifeStates ==
    {"start", "located", "already-patched", "rules-applied", "critical-ok",
     "critical-failed", "committed", "done", "aborted", "not-found"}

\* the states of the life of a run that its log holds, in order
StatesOf(l) == SelectSeq(l, LAMBDA e : e \in LifeStates)

\* the four lives of a run
Paths ==
    {<<"start", "not-found">>,
     <<"start", "located", "already-patched", "done">>,
     <<"start", "located", "rules-applied", "critical-ok", "committed", "done">>,
     <<"start", "located", "rules-applied", "critical-failed", "aborted">>}

\* the states the run p has entered are the beginning of one of the four
\* lives, and the whole of one exactly when the run has ended
OnPath(p) ==
    /\ \E path \in Paths : IsPrefix(StatesOf(log[p]), path)
    /\ pc[p] \in Terminal <=> StatesOf(log[p]) \in Paths
    /\ pc[p] \in Terminal => pc[p] = StatesOf(log[p])[Len(StatesOf(log[p]))]

\* C22: every started run ends, in done, aborted or not-found; the states it
\* enters are those of one of the four lives, in their order, so it enters
\* one terminal state and nothing after it, done only after committed or
\* already-patched, aborted only after critical-failed, never rules-applied
\* after already-patched and never committed after critical-failed.
C22_Terminates ==
    /\ [](\A p \in Procs : pc[p] # "idle" => OnPath(p))
    /\ (pc[1] = "start") ~> (pc[1] \in Terminal)

C22_Witness ==
    /\ pc[1] = "aborted"
    /\ runs = 2
    /\ StatesOf(log[1]) =
          <<"start", "located", "rules-applied", "critical-failed", "aborted">>

\* the lines that give the verdict on a run that attempted the rules
VerdictLines ==
    {<<"Critical patches failed - drizzle-kit may not work correctly">>,
     <<"Some non-critical patches failed, but drizzle-kit should work">>,
     <<"Patched drizzle-kit successfully">>}

\* the positions of the output o that hold a verdict
VerdictsAt(o) == {i \in 1..Len(o) : o[i] \in VerdictLines}

\* the output o holds the report on the whole rule list from position at on:
\* the heading, then one line per rule, in list order, for the result res[k]
FullReport(o, at, res) ==
    /\ at > 0
    /\ Len(res) = NumRules
    /\ Len(o) >= at + NumRules
    /\ \A k \in 1..NumRules :
          /\ res[k].name = RULES[k].name
          /\ o[at + k] = ReportLine(res[k])

\* C23 as stated: every finished run has printed the report on the whole
\* rule list, and after it exactly one verdict.
C23_AlwaysReports ==
    \A p \in Procs :
        pc[p] \in Terminal =>
            /\ FullReport(out[p], ReportAt(out[p]), results[p])
            /\ Cardinality(VerdictsAt(out[p])) = 1

\* C23 amended: a run that read an artifact without the current marker
\* prints, once its rules have run, the report on the whole rule list, each
\* rule as applied or as failed with its reason, before it acts on the
\* commit/abort decision (no verdict, no write and no exit before the
\* report), and when it has ended the report is followed by exactly one
\* verdict, the last line of its output.  A run that found no artifact or
\* found the current marker prints no report and no such verdict.
C23_ReportThenVerdict ==
    \A p \in Procs :
        /\ pc[p] = "gate" =>
              /\ FullReport(out[p], ReportAt(out[p]), results[p])
              /\ Len(out[p]) = ReportAt(out[p]) + NumRules
              /\ VerdictsAt(out[p]) = {}
              /\ writes[p] = 0 /\ exitCode[p] = -1
              /\ log[p][Len(log[p])] = "report"
        /\ ReportAt(out[p]) = 0 =>
              /\ VerdictsAt(out[p]) = {}
              /\ ~Logged(log[p], "critical-ok")
              /\ ~Logged(log[p], "critical-failed")
              /\ writes[p] = 0
        /\ (pc[p] \in Terminal /\ Logged(log[p], "rules-applied")) =>
              /\ FullReport(out[p], ReportAt(out[p]), results[p])
              /\ VerdictsAt(out[p]) = {ReportAt(out[p]) + NumRules + 1}
              /\ Len(out[p]) = ReportAt(out[p]) + NumRules + 1
        /\ (pc[p] \in Terminal /\ ~Logged(log[p], "rules-applied")) =>
              /\ ReportAt(out[p]) = 0
              /\ results[p] = <<>>

C23_Witness ==
    /\ pc[1] = "done"
    /\ Logged(log[1], "rules-applied")
    /\ hasFailure(results[1])
    /\ out[1][Len(out[1])] =
          <<"Some non-critical patches failed, but drizzle-kit should work">>

\* the names of the six steps of testVersion before the runtime tests
FixedSteps ==
    <<"Setup environment", "Install dependencies", "Copy patch script",
      "Apply patch", "Verify patch marker", "Verify all patches applied">>

\* the names of the steps the test runners push
RuntimeSteps ==
    {"Test drizzle-kit --help", "Test drizzle-kit generate",
     "Test drizzle-kit migrate", "Verify migrated DB schema",
     "Test drizzle-kit push", "Verify push DB schema",
     "Test drizzle-kit pull", "Verify pull schema"}

RECURSIVE InTestOrder(_, _, _, _)
\* the commands from command i on were spawned by the runners of the tests
\* from test j on, in the order of the tests, one or two commands per runner
InTestOrder(calls, i, tests, j) ==
    IF i > Len(calls) THEN TRUE
    ELSE IF j > Len(tests) \/ calls[i].by # tests[j] THEN FALSE
    ELSE \/ InTestOrder(calls, i + 1, tests, j + 1)
         \/ /\ i + 1 <= Len(calls)
            /\ calls[i + 1].by = tests[j]
            /\ InTestOrder(calls, i + 2, tests, j + 1)

\* every step recorded in the version run succeeded
AllSucceeded(steps) == \A k \in 1..Len(steps) : steps[k].success

\* a version run has just ended with a result: testVersion returned
VersionEnded ==
    /\ h.at \in {"setup", "summary", "exited"}
    /\ Len(h.results) >= 1
    /\ Len(h.steps) >= 1

\* C24: in a version run the recorded steps are, in this order, setup,
\* install, copy patch script, apply patch, verify marker, verify all
\* patches, and then steps of the runtime tests, whose commands are spawned
\* in the order of the selected tests (none under --quick); only the last
\* recorded step can be a failure, and after a failed step the version run
\* has ended; the version result is success exactly when every recorded
\* step succeeded.
C24_StepOrder ==
    (h.at \notin {"off", "main"} /\ Len(h.steps) >= 1) =>
        /\ \A k \in 1..Len(h.steps) :
              /\ k <= Len(FixedSteps) => h.steps[k].name = FixedSteps[k]
              /\ k > Len(FixedSteps) =>
                    /\ h.steps[k].name \in RuntimeSteps
                    /\ ~h.quick
              /\ k < Len(h.steps) => h.steps[k].success
        /\ ~AllSucceeded(h.steps) => VersionEnded
        /\ Len(h.calls) > 0 => Len(h.steps) > Len(FixedSteps)
        /\ InTestOrder(h.calls, 1, h.tests, 1)
        /\ VersionEnded =>
              h.results[Len(h.results)].success = AllSucceeded(h.steps)
        /\ (VersionEnded /\ AllSucceeded(h.steps)) =>
              /\ Len(h.steps) >= Len(FixedSteps)
              /\ ~h.quick => \A j \in 1..Len(h.tests) :
                                \E k \in 1..Len(h.calls) :
                                    h.calls[k].by = h.tests[j]

C24_Witness ==
    /\ h.at = "setup"
    /\ Len(h.results) = 1
    /\ ~h.results[1].success
    /\ Len(h.steps) = 8
    /\ h.steps[7].name = "Test drizzle-kit generate"
    /\ h.steps[7].success
    /\ h.steps[8].name = "Test drizzle-kit migrate"
    /\ ~h.steps[8].success

\* the harness has ended after main reached its loop over the versions
RanVersions ==
    /\ h.at \in {"exited", "crashed"}
    /\ Len(h.versions) > 0

\* C25 as stated: when the harness has ended there is a result for every
\* requested version, in the order requested, also after a failed one, and
\* the exit status is 1 exactly when one of the results is a failure, else 0.
C25_AllVersionsRun ==
    RanVersions =>
        /\ Len(h.results) = Len(h.versions)
        /\ \A i \in 1..Len(h.results) : h.results[i].version = h.versions[i]
        /\ h.code \in {0, 1}
        /\ h.code = 1 <=> \E i \in 1..Len(h.results) : ~h.results[i].success

\* C26 as stated: when the harness has ended without --keep, whatever the
\* outcome of its version runs, the test directory is gone.
C26_CleanupUnlessKeep ==
    (RanVersions /\ ~h.keep) => ~h.dir

\* C27: runCommand calls kill at most once, for SIGTERM, and only when the
\* time set has passed while the call still waits for the child's output;
\* once the output is complete the timer is cleared if it has not fired, so
\* no kill comes after the return; the call returns only after the child
\* has ended; and whenever the child has ended, on its own or on the
\* SIGTERM, the call returns.
C27_KillOnceThenReturn ==
    /\ [](rc.pos \notin {"off", "called"} =>
            /\ Len(rc.kills) <= 1
            /\ \A k \in 1..Len(rc.kills) :
                  /\ rc.kills[k].at >= rc.timeout
                  /\ rc.kills[k].pos = "awaiting"
                  /\ rc.returnedAt >= 0 => rc.kills[k].at <= rc.returnedAt
            /\ rc.pos = "returned" =>
                  /\ rc.child = "ended"
                  /\ rc.timer \in {"cleared", "fired"}
                  /\ rc.timer = "cleared" <=> rc.kills = <<>>
                  /\ rc.status = SIGTERM_CODE => Len(rc.kills) = 1
            /\ rc.pending => rc.timer = "fired" /\ rc.pos = "awaiting")
    /\ (rc.pos # "off" /\ rc.child = "ended") ~> (rc.pos = "returned")
    /\ (rc.pos # "off" /\ rc.pending /\ rc.onTerm = "exit")
          ~> (rc.pos = "returned")

C27_Witness ==
    /\ rc.pos = "returned"
    /\ Len(rc.kills) = 1
    /\ rc.kills[1].child = "running"
    /\ rc.status = SIGTERM_CODE
    /\ rc.timer = "fired"
    /\ rc.now > rc.returnedAt

ExactMarker(text) ==
    \E i \in 1..Len(text) :
        /\ text[i] = MARKER_PREFIX
        /\ DigitRun(text, i + 1) = SubSeq(PATCH_MARKER, 2, Len(PATCH_MARKER))

RECURSIVE NumOf(_)
\* the integer a run of digits writes
NumOf(ds) ==
    IF ds = <<>> THEN 0
    ELSE 10 * NumOf(SubSeq(ds, 1, Len(ds) - 1))
         + (CASE ds[Len(ds)] = "0" -> 0
              [] ds[Len(ds)] = "1" -> 1
              [] ds[Len(ds)] = "9" -> 9)

\* the run has printed the note on an older patch
OlderNoted(p) ==
    \E i \in 1..Len(out[p]) : out[p][i][1] = "Found older patch (v"

\* C29 as stated: a run that has made the marker check has stopped as
\* already patched exactly when the artifact carries a marker with the
\* version integer 10; a marker with another integer, 11 or 100, does not
\* stop it; and it has noted an older patch only for a marker whose integer
\* is smaller than 10.
C29_ExactMarkerOnly ==
    \A p \in Procs :
        (pc[p] \notin {"idle", "start", "located", "read"}
         /\ before[p].present) =>
            /\ Logged(log[p], "already-patched") <=> ExactMarker(before[p].text)
            /\ OlderNoted(p) =>
                  NumOf(oldPatchMatch(before[p].text))
                      < NumOf(SubSeq(PATCH_MARKER, 2, Len(PATCH_MARKER)))

\* a call site of a critical rule stands in the text as the rule leaves it
Rewritten(text) ==
    /\ Includes(text, <<REGISTER_SIG, NL, REGISTER_RET>>)
    /\ Includes(text, <<CONFIG_IMPORT, "path", IMPORT_END, IMPORT_NOTE>>)
    /\ Includes(text, <<SCHEMA_IMPORT, "it", IMPORT_END, IMPORT_NOTE>>)
    /\ \A i \in 1..Len(text) :
          /\ text[i] \notin {CONFIG_REQUIRE, SCHEMA_REQUIRE}
          /\ text[i] = REGISTER_SIG =>
                SubSeq(text, i, i + 2) = <<REGISTER_SIG, NL, REGISTER_RET>>

\* C30: when the first run started on an artifact without any marker, then
\* after every sequence of runs, committing, aborting or stopping at the
\* marker, an artifact that carries the current marker holds the rewrites
\* of safeRegister, config loading and schema loading at every call site of
\* these rules.
C30_MarkerImpliesCritical ==
    (/\ bin0.present
     /\ oldPatchMatch(bin0.text) = <<>>
     /\ Includes(bin.text, PATCH_MARKER))
    => Rewritten(bin.text)

C30_Witness ==
    /\ bin0.present
    /\ oldPatchMatch(bin0.text) = <<>>
    /\ runs = 2
    /\ pc[1] = "done"
    /\ writes[1] = 0
    /\ Includes(bin.text, PATCH_MARKER)
    /\ ~Includes(bin.text, <<WALK_RET>>)

====
